---- MODULE Spec2Model ----
(***************************************************************************)
(* ChemBalance: the notation scanner, the validator, the compound          *)
(* simplifier, the linear-system builder, the solver and the stringifier   *)
(* of parse.ts / solver.ts, driven by handleCompution of the main script.  *)
(*                                                                         *)
(* Strings of the program are sequences of one-character strings; the      *)
(* string keys of an AbstractToken are TLA+ strings.  Characters outside   *)
(* ASCII are written by an ASCII name that stands for the one character:   *)
(* "=>" is the yield arrow U+21D2.                                         *)
(* Numbers of the program are exact rationals <<n, d>> with d > 0 in       *)
(* lowest terms.  IEEE rounding noise is not modelled: the program removes *)
(* the solver's by rounding to 4 decimals, which is modelled; the noise of *)
(* the product FREE_CHARGE * coefficient only shows in the digits that are *)
(* rendered for a free charge; the pivot test A[i_max][k] == 0 of          *)
(* diagonalize is exact here, while in floating point a pivot that is zero *)
(* in exact arithmetic can come out as a tiny non-zero number.             *)
(***************************************************************************)
EXTENDS Integers, Sequences, FiniteSets, TLC

(***************************************************************************)
(* Generic helpers                                                         *)
(***************************************************************************)
\* a sequence given by a function constructor, as an explicit tuple
Tuple(f) == f \o <<>>

RECURSIVE Flatten(_)
Flatten(ss) == IF ss = <<>> THEN <<>> ELSE Head(ss) \o Flatten(Tail(ss))

RECURSIVE Str(_)
Str(cs) == IF cs = <<>> THEN "" ELSE Head(cs) \o Str(Tail(cs))

Then(ps, F(_)) == Flatten(Tuple([i \in DOMAIN ps |-> F(ps[i])]))

SelectIdx(s, T(_)) ==
    LET RECURSIVE Sel(_)
        Sel(i) == IF i > Len(s) THEN <<>>
                  ELSE IF T(s[i]) THEN <<i>> \o Sel(i + 1) ELSE Sel(i + 1)
    IN Sel(1)

NoFields == [k \in {} |-> 0]

(***************************************************************************)
(* Numbers: exact rationals                                                *)
(***************************************************************************)
Abs(i) == IF i < 0 THEN -i ELSE i

RECURSIVE Gcd(_, _)
Gcd(a, b) == IF b = 0 THEN a ELSE Gcd(b, a % b)

Rat(n, d) ==
    LET g == Gcd(Abs(n), Abs(d))
        s == IF d < 0 THEN -1 ELSE 1
    IN <<(s * n) \div g, (s * d) \div g>>

Zero == <<0, 1>>
One  == <<1, 1>>
RAdd(x, y) == Rat(x[1] * y[2] + y[1] * x[2], x[2] * y[2])
RSub(x, y) == Rat(x[1] * y[2] - y[1] * x[2], x[2] * y[2])
RMul(x, y) == Rat(x[1] * y[1], x[2] * y[2])
RDiv(x, y) == Rat(x[1] * y[2], x[2] * y[1])
RNeg(x)    == <<-x[1], x[2]>>
RAbs(x)    == <<Abs(x[1]), x[2]>>
RGt(x, y)  == x[1] * y[2] > y[1] * x[2]
Truthy(x)  == x[1] # 0

RECURSIVE RSum(_)
RSum(xs) == IF xs = <<>> THEN Zero ELSE RAdd(Head(xs), RSum(Tail(xs)))

(***************************************************************************)
(* Character classes of the scanner's regular expression (flags "gim":      *)
(* the i flag makes [A-Z], [a-z] and the literal s match either case)       *)
(***************************************************************************)
Digits == {"0", "1", "2", "3", "4", "5", "6", "7", "8", "9"}
Upper == {"A", "B", "C", "D", "E", "F", "G", "H", "I", "J", "K", "L", "M",
          "N", "O", "P", "Q", "R", "S", "T", "U", "V", "W", "X", "Y", "Z"}
Lower == {"a", "b", "c", "d", "e", "f", "g", "h", "i", "j", "k", "l", "m",
          "n", "o", "p", "q", "r", "s", "t", "u", "v", "w", "x", "y", "z"}
Whitespace == {" "}
IgnoreCase == TRUE
ClassAZ == IF IgnoreCase THEN Upper \cup Lower ELSE Upper
Classaz == IF IgnoreCase THEN Upper \cup Lower ELSE Lower
LiteralS == IF IgnoreCase THEN {"s", "S"} ELSE {"s"}
Word == Upper \cup Lower \cup Digits \cup {"_"}
BracketClass == Word \cup Whitespace \cup Digits \cup {"*", "[", "]", "."}
DigitValue == [c \in Digits |->
    CASE c = "0" -> 0 [] c = "1" -> 1 [] c = "2" -> 2 [] c = "3" -> 3
      [] c = "4" -> 4 [] c = "5" -> 5 [] c = "6" -> 6 [] c = "7" -> 7
      [] c = "8" -> 8 [] c = "9" -> 9]

(***************************************************************************)
(* Backtracking matcher: every piece of the pattern returns the positions  *)
(* (index of the next unread character, 1-based) at which it can end, in   *)
(* the order in which the regex engine tries them; the match is the first  *)
(* one.                                                                    *)
(***************************************************************************)
RECURSIVE RunLen(_, _, _)
RunLen(s, p, C) ==
    IF p <= Len(s) /\ s[p] \in C THEN 1 + RunLen(s, p + 1, C) ELSE 0

StarEnds(s, p, C) ==
    LET k == RunLen(s, p, C) IN Tuple([i \in 1..(k + 1) |-> p + k + 1 - i])
PlusEnds(s, p, C) ==
    LET k == RunLen(s, p, C) IN Tuple([i \in 1..k |-> p + k + 1 - i])
OptEnds(s, p, C) ==
    IF p <= Len(s) /\ s[p] \in C THEN <<p + 1, p>> ELSE <<p>>
LitEnds(s, p, C) ==
    IF p <= Len(s) /\ s[p] \in C THEN <<p + 1>> ELSE <<>>

Text(s, a, b) == SubSeq(s, a, b - 1)

\* faulty variant of NumberPattern: the final [0-9]+ written [0-9]*, which
\* lets the pattern match the empty string
NumberPattern_ZeroWidth(s, p) ==
    Then(OptEnds(s, p, {"+", "-"}), LAMBDA p1:
    Then(StarEnds(s, p1, Whitespace), LAMBDA p2:
    Then(StarEnds(s, p2, Digits), LAMBDA p3:
    Then(StarEnds(s, p3, Whitespace), LAMBDA p4:
    Then(OptEnds(s, p4, {"."}), LAMBDA p5:
    Then(StarEnds(s, p5, Whitespace), LAMBDA p6:
    StarEnds(s, p6, Digits)))))))

\* [\+\-]?\s*[0-9]*\s*[.]{0,1}\s*[0-9]+
NumberPattern(s, p) ==
    Then(OptEnds(s, p, {"+", "-"}), LAMBDA p1:
    Then(StarEnds(s, p1, Whitespace), LAMBDA p2:
    Then(StarEnds(s, p2, Digits), LAMBDA p3:
    Then(StarEnds(s, p3, Whitespace), LAMBDA p4:
    Then(OptEnds(s, p4, {"."}), LAMBDA p5:
    Then(StarEnds(s, p5, Whitespace), LAMBDA p6:
    PlusEnds(s, p6, Digits)))))))

\* (?:\s*(?<MULT_A>NumberPattern)\s*\*\s*)?
MultA(s, p) ==
    Then(StarEnds(s, p, Whitespace), LAMBDA a:
    Then(NumberPattern(s, a), LAMBDA b:
    Then(StarEnds(s, b, Whitespace), LAMBDA c:
    Then(LitEnds(s, c, {"*"}), LAMBDA d:
    Then(StarEnds(s, d, Whitespace), LAMBDA e:
    <<[pos |-> e, val |-> Text(s, a, b)]>>)))))
    \o <<[pos |-> p, val |-> <<>>]>>

\* (?:\s*\*\s*\+{0,1}\s*(?<MULT_B>NumberPattern)T*)?   T is \s, or s in FRM
MultB(s, p, T) ==
    Then(StarEnds(s, p, Whitespace), LAMBDA p1:
    Then(LitEnds(s, p1, {"*"}), LAMBDA p2:
    Then(StarEnds(s, p2, Whitespace), LAMBDA p3:
    Then(OptEnds(s, p3, {"+"}), LAMBDA p4:
    Then(StarEnds(s, p4, Whitespace), LAMBDA a:
    Then(NumberPattern(s, a), LAMBDA b:
    Then(StarEnds(s, b, T), LAMBDA e:
    <<[pos |-> e, val |-> Text(s, a, b)]>>)))))))
    \o <<[pos |-> p, val |-> <<>>]>>

\* (?:\s*\^\s*(?<CHARGE>NumberPattern)\s*)?
ChargePart(s, p) ==
    Then(StarEnds(s, p, Whitespace), LAMBDA p1:
    Then(LitEnds(s, p1, {"^"}), LAMBDA p2:
    Then(StarEnds(s, p2, Whitespace), LAMBDA a:
    Then(NumberPattern(s, a), LAMBDA b:
    Then(StarEnds(s, b, Whitespace), LAMBDA e:
    <<[pos |-> e, val |-> Text(s, a, b)]>>)))))
    \o <<[pos |-> p, val |-> <<>>]>>

NoGroups == [SUM |-> <<>>, FRM_MULT_A |-> <<>>, BRACKET |-> <<>>,
             FRM_MULT_B |-> <<>>, FRM_CHARGE |-> <<>>, ELM_MULT_A |-> <<>>,
             ELEMENT |-> <<>>, ELM_MULT_B |-> <<>>, ELM_CHARGE |-> <<>>,
             FREE_CHARGE |-> <<>>, YIELD |-> <<>>]

\* (?<SUM>[\+])
SumAlt(s, p) ==
    Then(LitEnds(s, p, {"+"}), LAMBDA e:
    <<[index |-> p, end |-> e,
       groups |-> [NoGroups EXCEPT !.SUM = Text(s, p, e)]]>>)

\* MULT_A? \[ (?<BRACKET>[\w\s\d\*\[\]\.]*) \] MULT_B? CHARGE?
FormulaAlt(s, p) ==
    Then(MultA(s, p), LAMBDA g1:
    Then(LitEnds(s, g1.pos, {"["}), LAMBDA b0:
    Then(StarEnds(s, b0, BracketClass), LAMBDA b1:
    Then(LitEnds(s, b1, {"]"}), LAMBDA c:
    Then(MultB(s, c, LiteralS), LAMBDA g3:
    Then(ChargePart(s, g3.pos), LAMBDA g4:
    <<[index |-> p, end |-> g4.pos,
       groups |-> [NoGroups EXCEPT !.FRM_MULT_A = g1.val,
                                   !.BRACKET = Text(s, b0, b1),
                                   !.FRM_MULT_B = g3.val,
                                   !.FRM_CHARGE = g4.val]]>>))))))

\* faulty variant of ElementAlt: the charge group is mandatory
ElementAlt_MandatoryCharge(s, p) ==
    Then(MultA(s, p), LAMBDA g1:
    Then(LitEnds(s, g1.pos, ClassAZ), LAMBDA n1:
    Then(OptEnds(s, n1, Classaz), LAMBDA n2:
    Then(MultB(s, n2, Whitespace), LAMBDA g3:
    Then(ChargePart(s, g3.pos), LAMBDA g4:
    IF g4.val = <<>> THEN <<>>
    ELSE <<[index |-> p, end |-> g4.pos,
            groups |-> [NoGroups EXCEPT !.ELM_MULT_A = g1.val,
                                        !.ELEMENT = Text(s, g1.pos, n2),
                                        !.ELM_MULT_B = g3.val,
                                        !.ELM_CHARGE = g4.val]]>>)))))

\* MULT_A? (?<ELEMENT>[A-Z][a-z]?) MULT_B? CHARGE?
ElementAlt(s, p) ==
    Then(MultA(s, p), LAMBDA g1:
    Then(LitEnds(s, g1.pos, ClassAZ), LAMBDA n1:
    Then(OptEnds(s, n1, Classaz), LAMBDA n2:
    Then(MultB(s, n2, Whitespace), LAMBDA g3:
    Then(ChargePart(s, g3.pos), LAMBDA g4:
    <<[index |-> p, end |-> g4.pos,
       groups |-> [NoGroups EXCEPT !.ELM_MULT_A = g1.val,
                                   !.ELEMENT = Text(s, g1.pos, n2),
                                   !.ELM_MULT_B = g3.val,
                                   !.ELM_CHARGE = g4.val]]>>)))))

\* (?<FREE_CHARGE>NumberPattern)
FreeChargeAlt(s, p) ==
    Then(NumberPattern(s, p), LAMBDA e:
    <<[index |-> p, end |-> e,
       groups |-> [NoGroups EXCEPT !.FREE_CHARGE = Text(s, p, e)]]>>)

\* (?<YIELD>[=>])
YieldAlt(s, p) ==
    Then(LitEnds(s, p, {"=>"}), LAMBDA e:
    <<[index |-> p, end |-> e,
       groups |-> [NoGroups EXCEPT !.YIELD = Text(s, p, e)]]>>)

MatchAt(s, p) ==
    SumAlt(s, p) \o FormulaAlt(s, p) \o ElementAlt(s, p)
        \o FreeChargeAlt(s, p) \o YieldAlt(s, p)

\* regex.exec(str) with the g flag: the leftmost match at or after lastIndex
\* (<<>> when there is none)
FirstMatch(ms, rest) == IF ms # <<>> THEN <<Head(ms)>> ELSE rest

RECURSIVE exec(_, _)
exec(s, lastIndex) ==
    IF lastIndex > Len(s) + 1 THEN <<>>
    ELSE FirstMatch(MatchAt(s, lastIndex), exec(s, lastIndex + 1))

(***************************************************************************)
(* scan: the match loop, the conversion of the named groups into a token   *)
(* and the recursion into bracket bodies                                   *)
(***************************************************************************)
GroupNames == <<"SUM", "FRM_MULT_A", "BRACKET", "FRM_MULT_B", "FRM_CHARGE",
                "ELM_MULT_A", "ELEMENT", "ELM_MULT_B", "ELM_CHARGE",
                "FREE_CHARGE", "YIELD">>

\* group_name.replace(/(ELM|FRM)_/g, "").replace(/MULT_(A|B)/g, "COUNT")
KeyOf(group_name) ==
    CASE group_name \in {"FRM_MULT_A", "FRM_MULT_B",
                         "ELM_MULT_A", "ELM_MULT_B"} -> "COUNT"
      [] group_name \in {"FRM_CHARGE", "ELM_CHARGE"} -> "CHARGE"
      [] OTHER -> group_name

\* /COUNT|CHARGE/g.test(key)
IsNumberKey(key) == key \in {"COUNT", "CHARGE", "FREE_CHARGE"}

RECURSIVE Pow10(_)
Pow10(k) == IF k = 0 THEN 1 ELSE 10 * Pow10(k - 1)

RECURSIVE DigitsToInt(_)
DigitsToInt(ds) ==
    IF ds = <<>> THEN 0
    ELSE 10 * DigitsToInt(SubSeq(ds, 1, Len(ds) - 1)) + DigitValue[ds[Len(ds)]]

\* Number(value.replace(/\s*/g, "")) for a text matched by NumberPattern
ToNumber(value) ==
    LET t   == SelectSeq(value, LAMBDA c: c \notin Whitespace)
        neg == t # <<>> /\ Head(t) = "-"
        u   == IF t # <<>> /\ Head(t) \in {"+", "-"} THEN Tail(t) ELSE t
        dot == SelectIdx(u, LAMBDA c: c = ".")
        ip  == IF dot = <<>> THEN u ELSE SubSeq(u, 1, dot[1] - 1)
        fp  == IF dot = <<>> THEN <<>> ELSE SubSeq(u, dot[1] + 1, Len(u))
        mag == Rat(DigitsToInt(ip \o fp), Pow10(Len(fp)))
    IN IF neg THEN RNeg(mag) ELSE mag

\* faulty variant of AssignGroups: a second value for a numeric key is added
\* to the first
RECURSIVE AssignGroups_Adds(_, _, _)
AssignGroups_Adds(groups, i, match) ==
    IF i > Len(GroupNames) THEN match
    ELSE LET value == groups[GroupNames[i]]
             key   == KeyOf(GroupNames[i])
             res   == IF IsNumberKey(key) THEN ToNumber(value)
                      ELSE IF key = "BRACKET" THEN [string |-> value]
                      ELSE value
             next  == IF value = <<>> THEN match
                      ELSE IF key \in DOMAIN match
                           THEN IF IsNumberKey(key)
                                THEN [match EXCEPT ![key] = RAdd(@, res)]
                                ELSE match
                           ELSE match @@ (key :> res)
         IN AssignGroups_Adds(groups, i + 1, next)

\* the loop over Object.entries(m.groups): a second value for a numeric key
\* multiplies the first, a first value is assigned
RECURSIVE AssignGroups(_, _, _)
AssignGroups(groups, i, match) ==
    IF i > Len(GroupNames) THEN match
    ELSE LET value == groups[GroupNames[i]]
             key   == KeyOf(GroupNames[i])
             res   == IF IsNumberKey(key) THEN ToNumber(value)
                      ELSE IF key = "BRACKET" THEN [string |-> value]
                      ELSE value
             next  == IF value = <<>> THEN match
                      ELSE IF key \in DOMAIN match
                           THEN IF IsNumberKey(key)
                                THEN [match EXCEPT ![key] = RMul(@, res)]
                                ELSE match
                           ELSE match @@ (key :> res)
         IN AssignGroups(groups, i + 1, next)

\* the matches of the while loop, in order; a zero-width match advances
\* lastIndex by one
NextIndex(m) == IF m.index = m.end THEN m.end + 1 ELSE m.end

RECURSIVE execAll(_, _)
Matches(str, m) ==
    IF m = <<>> THEN <<>>
    ELSE <<m[1]>> \o execAll(str, NextIndex(m[1]))

execAll(str, lastIndex) == Matches(str, exec(str, lastIndex))

IsArray(b) == "array" \in DOMAIN b

RECURSIVE scan(_)

\* if ("BRACKET" in match && match.BRACKET.length > 2)
\*     match.BRACKET = scan(match.BRACKET)
Rescan(match) ==
    IF "BRACKET" \in DOMAIN match /\ Len(match.BRACKET.string) > 2
    THEN [match EXCEPT !.BRACKET = [array |-> scan(match.BRACKET.string)]]
    ELSE match

\* the token pushed for one match of the regex
tokenOf(m) == Rescan(AssignGroups(m.groups, 1, NoFields))

Tokens(ms) == Tuple([i \in DOMAIN ms |-> tokenOf(ms[i])])

scan(str) == Tokens(execAll(str, 1))

(***************************************************************************)
(* simplifyCompound.  An AbstractToken is [keys, at, default]: keys is the *)
(* insertion order of its string keys (Object.keys), at maps a key to its  *)
(* number, default holds the value stored under the _default symbol (an    *)
(* empty sequence when the symbol is not set).  The result is <<>> for    *)
(* undefined and <<abstract>> otherwise.                                   *)
(***************************************************************************)
\* faulty variant of CountOr1: the multiplier of a token is ignored
CountOr1_Ignored(token) == One

\* token.COUNT || 1
CountOr1(token) ==
    IF "COUNT" \in DOMAIN token /\ Truthy(token.COUNT) THEN token.COUNT ELSE One

\* faulty variant of ChargeOr0: the charge of a token is dropped
ChargeOr0_Dropped(token) == Zero

\* token.CHARGE || 0
ChargeOr0(token) ==
    IF "CHARGE" \in DOMAIN token THEN token.CHARGE ELSE Zero

SetKey(abstract, elm, v) ==
    IF elm \in DOMAIN abstract.at
    THEN [abstract EXCEPT !.at[elm] = v]
    ELSE [abstract EXCEPT !.keys = Append(@, elm), !.at = @ @@ (elm :> v)]

\* faulty variant of Accumulate: the CHARGE of a child is added like a count
RECURSIVE Accumulate_WithCharge(_, _, _, _)
Accumulate_WithCharge(abstract, abs, count, i) ==
    IF i > Len(abs.keys) THEN abstract
    ELSE LET elm == abs.keys[i]
             v   == RMul(count, abs.at[elm])
         IN Accumulate_WithCharge(
                IF elm \notin DOMAIN abstract.at
                THEN SetKey(abstract, elm, v)
                ELSE SetKey(abstract, elm, RAdd(abstract.at[elm], v)),
                abs, count, i + 1)

\* for (let elm in abs): abstract[elm] = or += count * abs[elm], CHARGE skipped
RECURSIVE Accumulate(_, _, _, _)
Accumulate(abstract, abs, count, i) ==
    IF i > Len(abs.keys) THEN abstract
    ELSE LET elm == abs.keys[i]
             v   == RMul(count, abs.at[elm])
         IN Accumulate(
                IF elm = "CHARGE" THEN abstract
                ELSE IF elm \notin DOMAIN abstract.at
                     THEN SetKey(abstract, elm, v)
                     ELSE SetKey(abstract, elm, RAdd(abstract.at[elm], v)),
                abs, count, i + 1)

RECURSIVE simplifyCompound(_, _)
simplifyCompound(token, branch) ==
    LET empty == [keys |-> <<"CHARGE">>, at |-> ("CHARGE" :> Zero),
                  default |-> <<>>]
    IN IF "ELEMENT" \in DOMAIN token
       THEN <<SetKey(SetKey(empty, Str(token.ELEMENT), CountOr1(token)),
                     "CHARGE", ChargeOr0(token))>>
       ELSE IF "BRACKET" \in DOMAIN token
       THEN LET count == IF branch THEN CountOr1(token) ELSE One
                start == [SetKey(empty, "CHARGE", ChargeOr0(token))
                            EXCEPT !.default =
                                IF ~branch /\ "COUNT" \in DOMAIN token
                                           /\ Truthy(token.COUNT)
                                THEN <<token.COUNT>> ELSE <<>>]
                RECURSIVE Items(_, _)
                Items(abstract, i) ==
                    IF i > Len(token.BRACKET.array) THEN abstract
                    ELSE LET abs == simplifyCompound(token.BRACKET.array[i],
                                                     TRUE)
                         IN Items(IF abs = <<>> THEN abstract
                                  ELSE Accumulate(abstract, abs[1], count, 1),
                                  i + 1)
            IN IF IsArray(token.BRACKET) THEN <<Items(start, 1)>>
               ELSE <<start>>
       ELSE IF "FREE_CHARGE" \in DOMAIN token
       THEN <<SetKey(empty, "CHARGE", token.FREE_CHARGE)>>
       ELSE <<>>

(***************************************************************************)
(* makeAandB                                                               *)
(***************************************************************************)
IsDefault(token) == token.default # <<>> /\ Truthy(token.default[1])

\* elementsSet: the keys of all tokens in first-seen order
RECURSIVE AddAll(_, _)
AddAll(elements, keys) ==
    IF keys = <<>> THEN elements
    ELSE AddAll(IF \E i \in DOMAIN elements : elements[i] = Head(keys)
                THEN elements ELSE Append(elements, Head(keys)),
                Tail(keys))

RECURSIVE ElementsOf(_, _)
ElementsOf(tokens, elements) ==
    IF tokens = <<>> THEN elements
    ELSE ElementsOf(Tail(tokens), AddAll(elements, Head(tokens).keys))

\* faulty variant of DefaultIndex: the first compound is always the pinned one
DefaultIndex_First(tokens) == 1

\* index and coeff of the default compound: the last token that has one
DefaultIndex(tokens) ==
    LET ds == SelectIdx(tokens, IsDefault)
    IN IF ds = <<>> THEN 1 ELSE ds[Len(ds)]
DefaultCoeff(tokens) ==
    LET ds == SelectIdx(tokens, IsDefault)
    IN IF ds = <<>> THEN One ELSE tokens[ds[Len(ds)]].default[1]

\* token[k] || 0
ValueOr0(token, k) == IF k \in DOMAIN token.at THEN token.at[k] ELSE Zero

makeAandB(left, right) ==
    LET tokens       == left \o right
        elements     == ElementsOf(tokens, <<>>)
        numEquations == Len(elements)
        numUnknowns  == Len(tokens)
        nle          == Len(left)
        index        == DefaultIndex(tokens)
        coeff        == DefaultCoeff(tokens)
        Row(i) == Tuple([j \in 1..numUnknowns |->
                     IF i > numEquations THEN Zero
                     ELSE IF j <= nle THEN ValueOr0(left[j], elements[i])
                     ELSE RNeg(ValueOr0(right[j - nle], elements[i]))])
        \* A[numEquations][index] = 1 (creates the entry in an empty row)
        Last == IF numUnknowns = 0 THEN <<One>>
                ELSE [Row(numEquations + 1) EXCEPT ![index] = One]
    IN [A |-> Tuple([i \in 1..(numEquations + 1) |->
                 IF i = numEquations + 1 THEN Last ELSE Row(i)]),
        B |-> Tuple([i \in 1..(numEquations + 1) |->
                 IF i = numEquations + 1 THEN <<coeff>> ELSE <<Zero>>])]

(***************************************************************************)
(* solver.ts                                                               *)
(***************************************************************************)
transpose(matrix) ==
    Tuple([j \in 1..Len(matrix[1]) |->
             Tuple([i \in 1..Len(matrix) |-> matrix[i][j]])])

multiply(A, B) ==
    Tuple([i \in 1..Len(A) |-> Tuple([j \in 1..Len(B[1]) |->
        RSum(Tuple([k \in 1..Len(A[1]) |-> RMul(A[i][k], B[k][j])]))])])

findPivot(M, k) ==
    LET RECURSIVE Find(_, _)
        Find(i, i_max) ==
            IF i > Len(M) THEN i_max
            ELSE Find(i + 1, IF RGt(RAbs(M[i][k]), RAbs(M[i_max][k]))
                             THEN i ELSE i_max)
    IN Find(k + 1, k)

swap(M, i_max, k) ==
    IF i_max # k THEN [M EXCEPT ![i_max] = M[k], ![k] = M[i_max]] ELSE M

\* the rows below the pivot row k after one elimination step
Eliminate(A, k) ==
    Tuple([i \in 1..Len(A) |->
        IF i <= k THEN A[i]
        ELSE LET c == RDiv(A[i][k], A[k][k])
             IN Tuple([j \in 1..Len(A[i]) |->
                    IF j < k THEN A[i][j]
                    ELSE IF j = k THEN Zero
                    ELSE RSub(A[i][j], RMul(A[k][j], c))])])

\* [singular |-> TRUE] when the pivot found at some step is zero (the throw)
RECURSIVE diagonalizeFrom(_, _)
diagonalizeFrom(A, k) ==
    LET m == Len(A)
        n == Len(A[1])
        min_m_n == IF m < n THEN m ELSE n
    IN IF k > min_m_n THEN [singular |-> FALSE, A |-> A]
       ELSE LET i_max == findPivot(A, k)
            IN IF A[i_max][k] = Zero THEN [singular |-> TRUE, A |-> A]
               ELSE diagonalizeFrom(Eliminate(swap(A, k, i_max), k), k + 1)

diagonalize(A) == diagonalizeFrom(A, 1)

makeM(A, b) == Tuple([i \in 1..Len(A) |-> Append(A[i], b[i][1])])

RECURSIVE substituteFrom(_, _)
substituteFrom(M, i) ==
    IF i < 1 THEN M
    ELSE LET m == Len(M)
             x == RDiv(M[i][m + 1], M[i][i])
         IN substituteFrom(
              Tuple([r \in 1..m |->
                 IF r < i THEN [M[r] EXCEPT ![m + 1] = RSub(@, RMul(x, M[r][i])),
                                            ![i] = Zero]
                 ELSE IF r = i THEN [M[r] EXCEPT ![m + 1] = x, ![i] = One]
                 ELSE M[r]]),
              i - 1)

substitute(M) == substituteFrom(M, Len(M))

\* faulty variant of extractX: reads the diagonal instead of the last column
extractX_Diagonal(M) == Tuple([i \in 1..Len(M) |-> M[i][i]])
extractX(M) == Tuple([i \in 1..Len(M) |-> M[i][Len(M[1])]])

gaussian_elimination_calc(A, B) ==
    LET d == diagonalize(makeM(A, B))
    IN IF d.singular THEN [singular |-> TRUE, x |-> <<>>]
       ELSE [singular |-> FALSE, x |-> extractX(substitute(d.A))]

solve(A, B) ==
    LET AT  == transpose(A)
        ATA == multiply(AT, A)
        ATB == multiply(AT, B)
    IN gaussian_elimination_calc(ATA, ATB)

\* Math.round(c * 1e4) / 1e4
\* faulty variant of Round4: Math.round(c), the scaling by 1e4 forgotten
Round4_ToInteger(c) == Rat((2 * c[1] + c[2]) \div (2 * c[2]), 1)

\* Math.round(c * 1e4) / 1e4
Round4(c) == Rat((2 * c[1] * 10000 + c[2]) \div (2 * c[2]), 10000)

(***************************************************************************)
(* Stringifier.  A rendered string is a sequence of characters.  The       *)
(* glyphs of the maps are written by name, each name one character of the  *)
(* rendered string: "sub0".."sub9" for the subscript digits, "sup0".."sup9"*)
(* and "sup." for the superscript digits and the middle dot, "sup-" and    *)
(* "sup+" for the two characters of chargescript.                          *)
(***************************************************************************)
DigitChar == <<"0", "1", "2", "3", "4", "5", "6", "7", "8", "9">>

RECURSIVE IntDigits(_)
IntDigits(i) ==
    IF i < 10 THEN <<DigitChar[i + 1]>>
    ELSE Append(IntDigits(i \div 10), DigitChar[(i % 10) + 1])

RECURSIVE FracDigits(_, _)
FracDigits(n, d) ==
    IF n = 0 THEN <<>>
    ELSE <<DigitChar[((10 * n) \div d) + 1]>> \o FracDigits((10 * n) % d, d)

\* n.toString().split("") for a number with a finite decimal expansion
toString(n) ==
    LET a == Abs(n[1])
    IN (IF n[1] < 0 THEN <<"-">> ELSE <<>>)
       \o IntDigits(a \div n[2])
       \o (IF a % n[2] = 0 THEN <<>> ELSE <<".">> \o FracDigits(a % n[2], n[2]))

\* Map.get(d); join("") turns an undefined entry into the empty string
subscript(d) ==
    CASE d = "0" -> <<"sub0">> [] d = "1" -> <<"sub1">> [] d = "2" -> <<"sub2">>
      [] d = "3" -> <<"sub3">> [] d = "4" -> <<"sub4">> [] d = "5" -> <<"sub5">>
      [] d = "6" -> <<"sub6">> [] d = "7" -> <<"sub7">> [] d = "8" -> <<"sub8">>
      [] d = "9" -> <<"sub9">> [] d = "." -> <<".">> [] OTHER -> <<>>
superscript(d) ==
    CASE d = "0" -> <<"sup0">> [] d = "1" -> <<"sup1">> [] d = "2" -> <<"sup2">>
      [] d = "3" -> <<"sup3">> [] d = "4" -> <<"sup4">> [] d = "5" -> <<"sup5">>
      [] d = "6" -> <<"sup6">> [] d = "7" -> <<"sup7">> [] d = "8" -> <<"sup8">>
      [] d = "9" -> <<"sup9">> [] d = "." -> <<"sup.">> [] OTHER -> <<>>
chargescript == <<"sup-", "sup+">>

num2super(n) ==
    LET ds == toString(n)
    IN (IF n[1] > 0 THEN <<chargescript[2]>>
        ELSE IF n[1] < 0 THEN <<chargescript[1]>> ELSE <<>>)
       \o Flatten(Tuple([i \in DOMAIN ds |-> superscript(ds[i])]))

num2sub(n) ==
    LET ds == toString(n)
    IN Flatten(Tuple([i \in DOMAIN ds |-> subscript(ds[i])]))

\* the destructuring defaults { CHARGE = 0, COUNT = 1 }
CountDefault(obj) == IF "COUNT" \in DOMAIN obj THEN obj.COUNT ELSE One

stringifyElement(token) ==
    token.ELEMENT
    \o (IF CountDefault(token) # One THEN num2sub(CountDefault(token)) ELSE <<>>)
    \o (IF Truthy(ChargeOr0(token)) THEN num2super(ChargeOr0(token)) ELSE <<>>)

RECURSIVE stringifyFormula(_, _)
stringifyFormula(token, main) ==
    LET BRACKET == token.BRACKET
        part(obj) ==
            (IF "ELEMENT" \in DOMAIN obj THEN stringifyElement(obj) ELSE <<>>)
            \o (IF "BRACKET" \in DOMAIN obj /\ "COUNT" \in DOMAIN obj
                   /\ Truthy(obj.COUNT)
                THEN <<"(">> \o stringifyFormula(obj, FALSE) \o <<")">>
                     \o (IF obj.COUNT # One THEN num2sub(obj.COUNT) ELSE <<>>)
                ELSE <<>>)
        str == IF IsArray(BRACKET)
               THEN Flatten(Tuple([i \in DOMAIN BRACKET.array |->
                                      part(BRACKET.array[i])]))
               ELSE <<>>
    IN (IF main /\ CountDefault(token) # One
        THEN toString(CountDefault(token)) ELSE <<>>)
       \o str
       \o (IF Truthy(ChargeOr0(token)) THEN num2super(ChargeOr0(token)) ELSE <<>>)

\* Object.values(token).pop() of a SUM or YIELD token
stringifyOperator(token) ==
    IF "YIELD" \in DOMAIN token THEN token.YIELD ELSE token.SUM

stringifyFreeCharge(token) ==
    IF ~Truthy(token.FREE_CHARGE) THEN <<>>
    ELSE <<"+", "e">> \o num2super(token.FREE_CHARGE)

\* faulty variant of stringify: the space after each token left out
stringify_NoSpace(tree) ==
    LET txt(obj) ==
            IF "BRACKET" \in DOMAIN obj THEN stringifyFormula(obj, TRUE)
            ELSE IF "ELEMENT" \in DOMAIN obj THEN stringifyElement(obj)
            ELSE IF "FREE_CHARGE" \in DOMAIN obj THEN stringifyFreeCharge(obj)
            ELSE IF "YIELD" \in DOMAIN obj \/ "SUM" \in DOMAIN obj
                 THEN stringifyOperator(obj)
            ELSE <<>>
    IN Flatten(Tuple([i \in DOMAIN tree |-> txt(tree[i])]))

stringify(tree) ==
    LET txt(obj) ==
            (IF "BRACKET" \in DOMAIN obj THEN stringifyFormula(obj, TRUE)
             ELSE IF "ELEMENT" \in DOMAIN obj THEN stringifyElement(obj)
             ELSE IF "FREE_CHARGE" \in DOMAIN obj THEN stringifyFreeCharge(obj)
             ELSE IF "YIELD" \in DOMAIN obj \/ "SUM" \in DOMAIN obj
                  THEN stringifyOperator(obj)
             ELSE <<>>)
            \o <<" ">>
    IN Flatten(Tuple([i \in DOMAIN tree |-> txt(tree[i])]))

(***************************************************************************)
(* Validator                                                               *)
(***************************************************************************)
MissingYield     == "Equation must have one yield \"=>\""
DuplicateYield   == "Equation must have only one yield \"=>\""
ElementMismatch  == "Elements on both sides must be the same"
TooManyPinnedCoefficients ==
    "Equation must have zero or one formula with default coefficient."
NoSolution       == "No solution were found."
SingularSystem   == "matrix is singular"

SyntaxError(message) == [kind |-> "SyntaxError", message |-> message]
StringValue(value)   == [kind |-> "string", value |-> value]

IsYield(e) == "YIELD" \in DOMAIN e

\* tree.findIndex / tree.findLastIndex, 1-based, 0 when there is none
findIndex(tree, T(_)) ==
    LET is == SelectIdx(tree, T) IN IF is = <<>> THEN 0 ELSE is[1]
findLastIndex(tree, T(_)) ==
    LET is == SelectIdx(tree, T) IN IF is = <<>> THEN 0 ELSE is[Len(is)]

indexOfYield(tree) == findIndex(tree, IsYield)

\* faulty variant of mustHaveOneYield: the second case compares the first
\* index with itself, so a second yield is never seen
mustHaveOneYield_FirstOnly(tree) ==
    LET index == findIndex(tree, IsYield)
    IN IF index = 0 THEN <<SyntaxError(MissingYield)>>
       ELSE IF findIndex(tree, IsYield) # index
            THEN <<SyntaxError(DuplicateYield)>>
       ELSE <<>>

\* the error it throws, <<>> when it returns
mustHaveOneYield(tree) ==
    LET index == findIndex(tree, IsYield)
    IN IF index = 0 THEN <<SyntaxError(MissingYield)>>
       ELSE IF findLastIndex(tree, IsYield) # index
            THEN <<SyntaxError(DuplicateYield)>>
       ELSE <<>>

\* the element names of the compounds of one side, in insertion order
ElementNames(side) ==
    SelectSeq(ElementsOf(side, <<>>), LAMBDA key: key # "CHARGE")

\* the loop that deletes every left element from the right set and stops
\* at the first one that is missing, then the test of what is left
RECURSIVE DeleteEach(_, _, _)
DeleteEach(elementsLeft, elementsRight, i) ==
    IF i > Len(elementsLeft)
    THEN [mismatchFound |-> FALSE, elementsRight |-> elementsRight]
    ELSE IF elementsLeft[i] \notin elementsRight
         THEN [mismatchFound |-> TRUE, elementsRight |-> elementsRight]
         ELSE DeleteEach(elementsLeft, elementsRight \ {elementsLeft[i]}, i + 1)

\* faulty variant of mustHaveTheSameElements: the elements that remain in
\* the right set after the loop are not looked at
mustHaveTheSameElements_NoLeftover(left, right) ==
    LET elementsLeft  == ElementNames(left)
        elementsRight == {ElementNames(right)[i] : i \in DOMAIN ElementNames(right)}
        loop == DeleteEach(elementsLeft, elementsRight, 1)
    IN IF loop.mismatchFound THEN <<SyntaxError(ElementMismatch)>> ELSE <<>>

mustHaveTheSameElements(left, right) ==
    LET elementsLeft  == ElementNames(left)
        elementsRight == {ElementNames(right)[i] : i \in DOMAIN ElementNames(right)}
        loop == DeleteEach(elementsLeft, elementsRight, 1)
        mismatchFound == loop.mismatchFound \/ loop.elementsRight # {}
    IN IF mismatchFound THEN <<SyntaxError(ElementMismatch)>> ELSE <<>>

\* faulty variant of mustHaveLessThanTwoCoefficient: count > 2
mustHaveLessThanTwoCoefficient_OffByOne(left, right) ==
    LET count == Len(SelectIdx(left, IsDefault)) + Len(SelectIdx(right, IsDefault))
    IN IF count > 2 THEN <<SyntaxError(TooManyPinnedCoefficients)>> ELSE <<>>

mustHaveLessThanTwoCoefficient(left, right) ==
    LET count == Len(SelectIdx(left, IsDefault)) + Len(SelectIdx(right, IsDefault))
    IN IF count > 1 THEN <<SyntaxError(TooManyPinnedCoefficients)>> ELSE <<>>

(***************************************************************************)
(* compute, step by step                                                   *)
(***************************************************************************)
\* remap.slice(from - 1, to).filter((t) => t)
Defined(remap, from, to) ==
    Flatten(Tuple([i \in 1..(IF to >= from THEN to - from + 1 ELSE 0) |->
                      remap[from + i - 1]]))

\* the position of ast[idx]'s abstract token in [...leftTokens, ...rightTokens]
Ordinal(remap, idx) == Len(Defined(remap, 1, idx))

\* steps 10 and 11: t.COEFF = coeffs[i], then the loop over remap
WithCoeff(tokens, cs, offset) ==
    Tuple([i \in DOMAIN tokens |-> SetKey(tokens[i], "COEFF", cs[offset + i])])

updateToken(tok, COEFF) ==
    IF "FREE_CHARGE" \in DOMAIN tok /\ Truthy(tok.FREE_CHARGE)
    THEN [tok EXCEPT !.FREE_CHARGE = RMul(@, COEFF)]
    ELSE IF "COUNT" \in DOMAIN tok THEN [tok EXCEPT !.COUNT = COEFF]
    ELSE tok @@ ("COUNT" :> COEFF)

updateAST(tree, remap, cs) ==
    Tuple([idx \in DOMAIN tree |->
        IF remap[idx] # <<>>
        THEN updateToken(tree[idx], cs[Ordinal(remap, idx)])
        ELSE tree[idx]])

(***************************************************************************)
(* Inputs                                                                  *)
(***************************************************************************)
MaxTerms  == 3
MaxRawLen == 3

H2   == <<"[", "H", "*", "2", "]">>
O2   == <<"[", "O", "*", "2", "]">>
H2O  == <<"[", "H", "*", "2", " ", "O", "]">>
H2O2 == <<"[", "H", "*", "2", " ", "O", "*", "2", "]">>
OH   == <<"[", "O", " ", "H", "]">>

TermSet == {H2, O2, H2O}
Separators == {<<"+">>, <<"=>">>}

RECURSIVE Equations(_)
Equations(k) ==
    IF k = 1 THEN TermSet
    ELSE {e \o sep \o t : e \in Equations(k - 1), sep \in Separators, t \in TermSet}

RawAlphabet == {"[", "]", "H", "2", "*", "+", "^", "=>"}

RECURSIVE RawStrings(_)
RawStrings(k) ==
    IF k = 0 THEN {<<>>}
    ELSE {Append(r, c) : r \in RawStrings(k - 1), c \in RawAlphabet}

\* the equations of the README and of the program's help text
Example4 == <<"[", "2", "*", "A", "l", " ", "[", "S", " ", "O", "*", "3", "]",
              "*", "3", "]", "+", "[", "N", "a", " ", "O", " ", "H", "]", "=>",
              "[", "N", "a", "*", "2", " ", "S", " ", "O", "*", "3", "]", "+",
              "[", "A", "l", " ", "[", "O", " ", "H", "]", "*", "3", "]">>
Example5 == H2O \o <<"+", "[", "M", "n", " ", "O", "*", "4", "]", "^", "-", "1",
              "-", "1", "=>", "[", "M", "n", " ", "O", "*", "2", "]", "+">>
              \o OH \o <<"^", "-", "1">>
Example6 == H2 \o <<"+", "1", "*">> \o O2 \o <<"=>">> \o H2O

\* state.#command as the constructor leaves it: an array of keys, each key the
\* string of its characters
InitialEntries ==
    << <<"[">>, <<"2">>, <<"*">>, <<"A", "l">>,
       <<"[">>, <<"S">>, <<" ">>, <<"O">>, <<"*">>, <<"3">>, <<"]">>,
       <<"*">>, <<"3">>, <<"]">>,
       <<"+">>,
       <<"[">>, <<"N", "a">>, <<" ">>, <<"O">>, <<" ">>, <<"H">>, <<"]">>,
       <<"=>">>,
       <<"[">>, <<"N", "a">>, <<"*">>, <<"2">>, <<" ">>, <<"S">>, <<" ">>,
       <<"O">>, <<"*">>, <<"3">>, <<"]">>,
       <<"+">>,
       <<"[">>, <<"A", "l">>, <<" ">>, <<"[">>, <<"O">>, <<" ">>, <<"H">>,
       <<"]">>, <<"*">>, <<"3">>, <<"]">>,
       <<" ">> >>

\* the command the program starts with: state.command.join("")
InitialCommand == Flatten(InitialEntries)

\* multipliers in front of and behind top-level and nested formulas
Multiplied ==
    {<<"1", "*">> \o H2 \o <<"+", "1", "*">> \o O2 \o <<"=>">> \o H2O,
     H2 \o <<"*", "2", "+">> \o O2 \o <<"*", "2", "=>">> \o H2O,
     H2 \o <<"*", "2", "+">> \o O2 \o <<"=>">> \o H2O,
     <<"2", "*">> \o H2 \o <<"*", "2", "+">> \o O2 \o <<"=>">> \o H2O,
     H2 \o <<"+">> \o O2 \o <<"=>", "3", "*">> \o H2O,
     <<"0", ".", "5", "*">> \o H2 \o <<"+">> \o O2 \o <<"=>">> \o H2O,
     <<"0", "*">> \o H2 \o <<"+", "0", "*">> \o O2 \o <<"=>">> \o H2O,
     <<"1", "*">> \o H2O \o <<"=>">> \o H2O2,
     <<"[">> \o OH \o <<"*", "2", "]", "+", "[">> \o OH
         \o <<"*", "3", "]", "=>">> \o OH,
     <<"[", "2", "*">> \o OH \o <<"]", "+", "[", "3", "*">> \o OH
         \o <<"]", "=>">> \o OH \o <<"+">> \o OH}

\* elements outside brackets, lower-case letters, decimal points
Unbracketed ==
    {<<"N", "a", "+", "C", "l", "=>", "N", "a", "C", "l">>,
     <<"2", "*", "H", "+", "O", "*", "2", "=>", "H", "*", "2", " ", "O">>,
     <<"[", "h", "*", "2", "]", "+", "[", "o", "*", "2", "]", "=>",
       "[", "h", "*", "2", " ", "o", "]">>,
     <<"H", "^", "+", "1", "+", "-", "1", "=>", "H">>,
     <<"H", " ", "o", "*", ".", "5", "^", "-", " ", "1", ".", "5">>}

\* inputs with two defects: an element missing on the right and two pinned
\* formulas, no yield and two pinned formulas
TwoDefects ==
    {H2 \o <<"*", "2", "+">> \o O2 \o <<"*", "2", "=>">> \o H2,
     H2 \o <<"*", "2", "+">> \o O2 \o <<"*", "2">>}

\* equations of bare elements with a multiplier that can be balanced
BareElements ==
    {<<"H", "*", "2", "=>", "H">>,
     <<"O", "*", "2", "^", "-", "2", "=>", "O", "^", "-", "1">>,
     <<"O", "*", "2", "=>", "[", "O", "*", "3", "]">>}

\* formulas whose bracket holds one bare element symbol
SingleElements ==
    {<<"[", "N", "a", "]", "+", "[", "C", "l", "*", "2", "]", "=>",
       "[", "N", "a", " ", "C", "l", "]">>,
     <<"[", "F", "e", "]">>,
     <<"2", "*", "[", "H", "]", "^", "+", "1">>}

\* tokens with a multiplier in front and a multiplier behind
BothMultipliers ==
    {<<"2", "*", "H", "*", "3">>,
     <<"3", "*", "[", "H", "*", "2", "]", "*", "2">>,
     <<"[", "3", "*", "[", "O", " ", "H", "]", "*", "2", " ", "O", " ",
       "2", "*", "H", "*", "5", "]">>}

\* letters next to each other
AdjacentLetters ==
    {<<"O", "H">>,
     <<"n", "a">>,
     <<"[", "N", "a", "O", "H", "]", "=>", "[", "N", "a", " ", "O", " ", "H",
       "]">>}

\* repeated symbols, nested formulas three deep, a multiplier of zero
AceticAcid == <<"[", "C", " ", "H", "*", "3", " ", "C", " ", "O", " ", "O",
                " ", "H", "]">>
ThreeDeep  == <<"[", "A", " ", "[", "B", " ", "[", "C", "*", "2", "]", "*",
                "3", "]", "*", "4", "]">>
Nested ==
    {AceticAcid,
     ThreeDeep,
     <<"[", "H", "*", "0", " ", "O", "]">>,
     <<"[", "H", " ", "[", "O", " ", "H", "]", "*", "0", "]">>,
     <<"5", "*", "[", "H", " ", "[", "O", " ", "H", "]", "]", "*", "2">>}

\* nested groups with and without a multiplier, side by side, a charge of 0
SiblingGroups == <<"[", "C", "a", " ", "[", "O", " ", "H", "]", "*", "2", " ",
                   "[", "N", " ", "O", "*", "3", "]", "*", "3", "]">>
Hydroxides ==
    {<<"[", "A", "l", " ", "[", "O", " ", "H", "]", "]">>,
     <<"[", "A", "l", " ", "[", "O", " ", "H", "]", "*", "3", "]">>,
     <<"[", "A", "l", " ", "[", "O", " ", "H", "]", "*", "1", "]", "^", "0">>,
     SiblingGroups}

\* equations with hydrogen peroxide: one that no coefficients balance, one
\* that is balanced by 1, 1, 0.5, one with a single way to balance it
Peroxide ==
    {H2O \o <<"=>">> \o H2O2,
     H2O2 \o <<"=>">> \o H2O \o <<"+">> \o O2,
     H2 \o <<"+">> \o O2 \o <<"=>">> \o H2O2}

\* whitespace and minus signs outside brackets
Spaced ==
    {<<"H", " ", "H">>,
     <<"-", " ">>,
     <<" ", "2">>,
     <<"2", " ", "-", "2">>,
     <<"H", "*", " ", "2", " ", "^", " ", "-", " ", "2">>}

Examples == {InitialCommand, Example4, Example5, Example6}
            \cup Multiplied \cup Unbracketed \cup SingleElements
            \cup BothMultipliers \cup AdjacentLetters \cup Nested
            \cup Peroxide \cup Spaced \cup Hydroxides \cup BareElements
            \cup TwoDefects

Inputs == UNION {Equations(k) : k \in 1..MaxTerms}
          \cup UNION {RawStrings(k) : k \in 0..MaxRawLen}
          \cup Examples

(***************************************************************************)
(* The program: handleCompution runs compute(scan(command)); compute is    *)
(* followed one statement group at a time.  The call runs to completion:   *)
(* pc enables exactly one step at a time and no other handler comes in     *)
(* between.                                                                *)
(***************************************************************************)
VARIABLES input, pc, ast, mappedAST, leftTokens, rightTokens, AB, coeffs,
          result, events, thrown, solveCalls, output

(***************************************************************************)
(* The output area of the canvas: the fill style and the text handed to    *)
(* toGlyph.  A text is Chars(cs) for a string of the program's characters  *)
(* and Message(m) for one of the message constants of the validator.       *)
(***************************************************************************)
Chars(cs)  == [kind |-> "chars", value |-> cs]
Message(m) == [kind |-> "message", value |-> m]

\* drawOutput(x, y, placeholder): an undefined placeholder takes the default
\* state.result.length ? state.result : stringify(scan(command))
drawOutput(style, placeholder, command, stored) ==
    [style |-> style,
     text  |-> IF placeholder # <<>> THEN placeholder[1]
               ELSE IF stored # <<>> THEN Chars(stored)
               ELSE Chars(stringify(scan(command)))]

\* e.detail.message: defined for an Error object, undefined for a string
MessageOf(detail) ==
    IF detail.kind = "SyntaxError" THEN <<Message(detail.message)>> ELSE <<>>

\* handleErrors: drawOutput(cx, cy / 2, e.detail.message) in the error style
handleErrors(detail, command, stored) ==
    drawOutput("error", MessageOf(detail), command, stored)

\* handleOutputUpdate: if (e.detail) drawOutput(.., e.detail) else
\* drawOutput(..), in the output style
handleOutputUpdate(detail, command, stored) ==
    drawOutput("output",
               IF detail # <<>> /\ detail[1] # <<>> THEN <<Chars(detail[1])>>
               ELSE <<>>,
               command, stored)

(***************************************************************************)
(* The console and the keys.  command, cursor, shift, currentElement and   *)
(* focusArea are the fields of state; clipboard is the text last handed to *)
(* navigator.clipboard.writeText; caller is the event whose dispatch has   *)
(* not returned yet; handled records the callback that ran last and the    *)
(* event it dispatched.  done and frames are the long-press variables:     *)
(* frames holds the keys of the callbacks requestAnimationFrame has        *)
(* queued, due says that 200 ms have passed since zero, pointer is the     *)
(* cell the pointer is down on; invoked and late record whether the        *)
(* callback of that cell has run since it went down and whether a callback *)
(* has run after the key was released.                                     *)
(***************************************************************************)
VARIABLES command, cursor, shift, currentElement, focusArea, clipboard,
          caller, handled, done, frames, due, pointer, invoked, late

console == <<command, cursor, shift, currentElement, focusArea, clipboard,
             caller, handled>>
press == <<done, frames, due, pointer, invoked, late>>
pipeline == <<input, pc, ast, mappedAST, leftTokens, rightTokens, AB, coeffs,
              events, thrown, solveCalls>>

vars == <<pipeline, result, output, console, press>>

Blank == <<" ">>

\* the cells of the table the model follows: H, the shift key, the console,
\* Re (the element selected at the start) and the keys of the last two rows
TableElement(key) == [key |-> key, type |-> "ELEMENT", cbFn |-> FALSE]
TableKey(key) == [key |-> key, type |-> "KEY", cbFn |-> FALSE]
TableCallbackKey(key) == [key |-> key, type |-> "KEY", cbFn |-> TRUE]
TableShift == [key |-> <<"shift">>, type |-> "SHIFT", cbFn |-> TRUE]
TableConsole == [key |-> <<>>, type |-> "CONSOLE", cbFn |-> FALSE]
NoCell == [key |-> <<>>, type |-> "undefined", cbFn |-> FALSE]

Hydrogen == TableElement(<<"H">>)
Rhenium == TableElement(<<"R", "e">>)
Key0 == TableKey(<<"0">>)
Key1 == TableKey(<<"1">>)
Key2 == TableKey(<<"2">>)
KeyYield == TableKey(<<"=>">>)
KeyDEL == TableCallbackKey(<<"D", "E", "L">>)
KeySpace == TableCallbackKey(<<"[", "-", "]">>)
KeyLeft == TableCallbackKey(<<"<-">>)
KeyRight == TableCallbackKey(<<"->">>)

table ==
    (<<0, 0>> :> Hydrogen) @@ (<<0, 1>> :> TableShift)
    @@ (<<0, 2>> :> TableConsole) @@ (<<5, 6>> :> Rhenium)
    @@ (<<8, 17>> :> KeyDEL) @@ (<<9, 3>> :> Key0) @@ (<<9, 4>> :> Key1)
    @@ (<<9, 5>> :> Key2) @@ (<<9, 13>> :> KeyYield) @@ (<<9, 14>> :> KeySpace)
    @@ (<<9, 15>> :> KeyLeft) @@ (<<9, 17>> :> KeyRight)

\* a place of the table the model knows: a cell it follows, or a place
\* outside the eighteen columns, where the program's table has nothing
Charted(item) == item \in DOMAIN table \/ item[2] \notin 0..17

isElement(element) == element.type = "ELEMENT"
isKey(key) == key.type = "KEY"
isShift(key) == key.type = "SHIFT"
isConsole(panel) == panel.type = "CONSOLE"

\* getElementIndex: the place of an element of the table, [0, 0] if none
getElementIndex(element) ==
    IF \E item \in DOMAIN table : isElement(table[item]) /\ table[item] = element
    THEN CHOOSE item \in DOMAIN table :
             isElement(table[item]) /\ table[item] = element
    ELSE <<0, 0>>

\* Array.prototype.slice(start, end) with places counted from 0; a negative
\* place counts from the end
Place(arr, k) ==
    IF k < 0 THEN (IF Len(arr) + k < 0 THEN 0 ELSE Len(arr) + k)
    ELSE IF k > Len(arr) THEN Len(arr) ELSE k
slice(arr, start, end) == SubSeq(arr, Place(arr, start) + 1, Place(arr, end))

\* get command(): an empty stored array reads as [" "]
GetCommand(stored) == IF Len(stored) = 0 THEN <<Blank>> ELSE stored

\* Array.prototype.join(""): the keys one after the other, put together by
\* halves
RECURSIVE join(_)
join(entries) ==
    IF entries = <<>> THEN <<>>
    ELSE IF Len(entries) = 1 THEN entries[1]
    ELSE join(SubSeq(entries, 1, Len(entries) \div 2))
         \o join(SubSeq(entries, Len(entries) \div 2 + 1, Len(entries)))

\* faulty variant of setCursor: the place is not clamped from below
setCursor_NoLowerClamp(idx, stored) ==
    IF idx > Len(stored) - 1 THEN Len(stored) - 1 ELSE idx

\* setCursor(idx): the place is clamped to 0 .. #command.length - 1, the upper
\* end last
setCursor(idx, stored) ==
    IF (IF idx <= 0 THEN 0 ELSE idx) > Len(stored) - 1 THEN Len(stored) - 1
    ELSE IF idx <= 0 THEN 0 ELSE idx

\* faulty variant of setCommand: the result of the old command is kept
setCommand_KeepsResult(cmd) ==
    /\ command' = cmd
    /\ UNCHANGED result
    /\ output' = handleOutputUpdate(<<>>, join(GetCommand(cmd)), result)

\* setCommand(cmd): stores the array, empties the result and dispatches
\* "command", on which handleOutputUpdate redraws the output
setCommand(cmd) ==
    /\ command' = cmd
    /\ result' = <<>>
    /\ output' = handleOutputUpdate(<<>>, join(GetCommand(cmd)), <<>>)

\* no callback has run yet
NoCallback == [cell |-> NoCell, event |-> <<>>]
Handled(cell, event) == [cell |-> cell, event |-> event]

\* the fields of state after construction
InitConsole ==
    /\ command = InitialEntries
    /\ cursor = 0
    /\ shift = FALSE
    /\ currentElement = table[<<5, 6>>]
    /\ focusArea = "CONSOLE"
    /\ clipboard = <<>>
    /\ caller = "none"
    /\ handled = NoCallback

\* the long-press variables after set-up: done is still undefined (read as
\* false), zero has just been taken, nothing is queued
InitPress ==
    /\ done = FALSE
    /\ frames = <<>>
    /\ due = FALSE
    /\ pointer = NoCell
    /\ invoked = FALSE
    /\ late = FALSE

NoAB == [A |-> <<>>, B |-> <<>>]

Init ==
    /\ input \in Inputs
    /\ pc = "idle"
    /\ ast = <<>>
    /\ mappedAST = <<>>
    /\ leftTokens = <<>>
    /\ rightTokens = <<>>
    /\ AB = NoAB
    /\ coeffs = <<>>
    /\ result = <<>>
    /\ events = <<>>
    /\ thrown = <<>>
    /\ solveCalls = 0
    /\ output = handleOutputUpdate(<<>>, input, <<>>)
    /\ InitConsole
    /\ InitPress

\* faulty variant of Throw: the error exit still stores the rendered AST
Throw_StoresResult(detail, err) ==
    /\ events' = Append(events, [type |-> "syntaxerror", detail |-> detail])
    /\ thrown' = <<err>>
    /\ pc' = "failed"
    /\ result' = stringify(ast)
    /\ output' = handleErrors(detail, input, result)
    /\ UNCHANGED ast

\* document.dispatchEvent(syntaxerror); throw err: compute is left at once,
\* nothing after the throw runs
Throw(detail, err) ==
    /\ events' = Append(events, [type |-> "syntaxerror", detail |-> detail])
    /\ thrown' = <<err>>
    /\ pc' = "failed"
    /\ output' = handleErrors(detail, input, result)
    /\ UNCHANGED <<ast, result>>

\* handleCompution: scan(state.command.join("")), then compute is entered
HandleCompution ==
    /\ pc \in {"idle", "done", "failed"}
    /\ ast' = scan(input)
    /\ pc' = "scanned"
    /\ mappedAST' = <<>>
    /\ leftTokens' = <<>>
    /\ rightTokens' = <<>>
    /\ AB' = NoAB
    /\ coeffs' = <<>>
    /\ events' = <<>>
    /\ thrown' = <<>>
    /\ solveCalls' = 0
    /\ UNCHANGED <<input, result, output>>
    /\ UNCHANGED <<console, press>>

\* step 1
MustHaveOneYield ==
    /\ pc = "scanned"
    /\ LET err == mustHaveOneYield(ast)
       IN IF err # <<>> THEN Throw(err[1], err[1])
          ELSE pc' = "yieldChecked" /\ UNCHANGED <<events, thrown, ast, result, output>>
    /\ UNCHANGED <<input, mappedAST, leftTokens, rightTokens, AB, coeffs,
                   solveCalls>>
    /\ UNCHANGED <<console, press>>

\* steps 2 to 5
Simplify ==
    /\ pc = "yieldChecked"
    /\ LET index == indexOfYield(ast)
           mapped == Tuple([i \in DOMAIN ast |->
                              simplifyCompound(ast[i], FALSE)])
       IN /\ mappedAST' = mapped
          /\ leftTokens' = Defined(mapped, 1, index - 1)
          /\ rightTokens' = Defined(mapped, index + 1, Len(ast))
    /\ pc' = "simplified"
    /\ UNCHANGED <<input, ast, AB, coeffs, result, events, thrown, solveCalls,
                   output>>
    /\ UNCHANGED <<console, press>>

\* faulty variant of MustHaveTheSameElements: the pinned coefficients are
\* counted before the elements are compared
MustHaveTheSameElements_PinnedFirst ==
    /\ pc = "simplified"
    /\ LET pinned == mustHaveLessThanTwoCoefficient(leftTokens, rightTokens)
           err == mustHaveTheSameElements(leftTokens, rightTokens)
       IN IF pinned # <<>> THEN Throw(pinned[1], pinned[1])
          ELSE IF err # <<>> THEN Throw(err[1], err[1])
          ELSE pc' = "elementsChecked"
               /\ UNCHANGED <<events, thrown, ast, result, output>>
    /\ UNCHANGED <<input, mappedAST, leftTokens, rightTokens, AB, coeffs,
                   solveCalls>>
    /\ UNCHANGED <<console, press>>

\* step 6
MustHaveTheSameElements ==
    /\ pc = "simplified"
    /\ LET err == mustHaveTheSameElements(leftTokens, rightTokens)
       IN IF err # <<>> THEN Throw(err[1], err[1])
          ELSE pc' = "elementsChecked"
               /\ UNCHANGED <<events, thrown, ast, result, output>>
    /\ UNCHANGED <<input, mappedAST, leftTokens, rightTokens, AB, coeffs,
                   solveCalls>>
    /\ UNCHANGED <<console, press>>

\* step 7
MustHaveLessThanTwoCoefficient ==
    /\ pc = "elementsChecked"
    /\ LET err == mustHaveLessThanTwoCoefficient(leftTokens, rightTokens)
       IN IF err # <<>> THEN Throw(err[1], err[1])
          ELSE pc' = "coefficientChecked"
               /\ UNCHANGED <<events, thrown, ast, result, output>>
    /\ UNCHANGED <<input, mappedAST, leftTokens, rightTokens, AB, coeffs,
                   solveCalls>>
    /\ UNCHANGED <<console, press>>

\* step 8
MakeAandB ==
    /\ pc = "coefficientChecked"
    /\ AB' = makeAandB(leftTokens, rightTokens)
    /\ pc' = "built"
    /\ UNCHANGED <<input, ast, mappedAST, leftTokens, rightTokens, coeffs,
                   result, events, thrown, solveCalls, output>>
    /\ UNCHANGED <<console, press>>

\* step 9: solve(A, B).map((c) => Math.round(c * 1e4) / 1e4); diagonalize
\* dispatches and throws when the system is singular
Solve ==
    /\ pc = "built"
    /\ solveCalls' = solveCalls + 1
    /\ LET r == solve(AB.A, AB.B)
       IN IF r.singular
          THEN /\ Throw(StringValue(NoSolution), StringValue(SingularSystem))
               /\ UNCHANGED coeffs
          ELSE /\ coeffs' = Tuple([i \in DOMAIN r.x |-> Round4(r.x[i])])
               /\ pc' = "solved"
               /\ UNCHANGED <<events, thrown, ast, result, output>>
    /\ UNCHANGED <<input, mappedAST, leftTokens, rightTokens, AB>>
    /\ UNCHANGED <<console, press>>

\* steps 10 and 11
UpdateCoefficients ==
    /\ pc = "solved"
    /\ leftTokens' = WithCoeff(leftTokens, coeffs, 0)
    /\ rightTokens' = WithCoeff(rightTokens, coeffs, Len(leftTokens))
    /\ mappedAST' = [idx \in DOMAIN mappedAST |->
                        IF mappedAST[idx] = <<>> THEN <<>>
                        ELSE <<SetKey(mappedAST[idx][1], "COEFF",
                                      coeffs[Ordinal(mappedAST, idx)])>>]
    /\ ast' = updateAST(ast, mappedAST, coeffs)
    /\ pc' = "updated"
    /\ UNCHANGED <<input, AB, coeffs, result, events, thrown, solveCalls,
                   output>>
    /\ UNCHANGED <<console, press>>

\* step 12
SetResult ==
    /\ pc = "updated"
    /\ result' = stringify(ast)
    /\ events' = Append(events, [type |-> "computation",
                                 detail |-> StringValue(stringify(ast))])
    /\ output' = handleOutputUpdate(<<stringify(ast)>>, input, stringify(ast))
    /\ pc' = "done"
    /\ UNCHANGED <<input, ast, mappedAST, leftTokens, rightTokens, AB, coeffs,
                   thrown, solveCalls>>
    /\ UNCHANGED <<console, press>>

Next ==
    \/ HandleCompution
    \/ MustHaveOneYield
    \/ Simplify
    \/ MustHaveTheSameElements
    \/ MustHaveLessThanTwoCoefficient
    \/ MakeAandB
    \/ Solve
    \/ UpdateCoefficients
    \/ SetResult

Spec == Init /\ [][Next]_vars

(***************************************************************************)
(* Which steps of the current compute call have acted                      *)
(***************************************************************************)
ThrownMessage ==
    IF thrown = <<>> THEN ""
    ELSE IF thrown[1].kind = "SyntaxError" THEN thrown[1].message
    ELSE thrown[1].value

ValidatorMessages ==
    {MissingYield, DuplicateYield, ElementMismatch, TooManyPinnedCoefficients}

Finished == pc \in {"done", "failed"}

YieldCheckActed == pc \notin {"idle", "scanned"}

ElementCheckActed ==
    \/ pc \in {"elementsChecked", "coefficientChecked", "built", "solved",
               "updated", "done"}
    \/ pc = "failed" /\ ThrownMessage \notin {MissingYield, DuplicateYield}

CoefficientCheckActed ==
    \/ pc \in {"coefficientChecked", "built", "solved", "updated", "done"}
    \/ pc = "failed" /\ ThrownMessage \in {TooManyPinnedCoefficients,
                                           SingularSystem}

HasComputationEvent == \E i \in DOMAIN events : events[i].type = "computation"

Half == <<1, 2>>

(***************************************************************************)
(* C1                                                                      *)
(***************************************************************************)
C1Input == H2 \o <<"+">> \o O2 \o <<"=>">> \o H2O

\* C1 as stated: for [H*2]+[O*2]⇒[H*2 O] compute yields the coefficient
\* vector [2, 1, 2] and the result string "2H₂ + O₂ ⇒ 2H₂O ".
C1_AsStated ==
    (input = C1Input /\ Finished) =>
        /\ pc = "done"
        /\ coeffs = <<<<2, 1>>, One, <<2, 1>>>>
        /\ Str(result) = "2Hsub2 + Osub2 => 2Hsub2O "

\* C1: for [H*2]+[O*2]⇒[H*2 O], which pins no compound, compute finishes
\* without error, the first compound gets 1, the coefficient vector is
\* [1, 0.5, 1] and the result string is "H₂ + 0.5O₂ ⇒ H₂O ".
C1_Example ==
    (input = C1Input /\ Finished) =>
        /\ pc = "done"
        /\ thrown = <<>>
        /\ coeffs = <<One, Half, One>>
        /\ Str(result) = "Hsub2 + 0.5Osub2 => Hsub2O "

C1_Witness == input = C1Input /\ pc = "done" /\ Len(coeffs) = 3

(***************************************************************************)
(* C2                                                                      *)
(***************************************************************************)
\* sum over the compounds of one side of coefficient times the count of key k
SideTotal(side, offset, k) ==
    RSum(Tuple([i \in DOMAIN side |->
                   RMul(coeffs[offset + i], ValueOr0(side[i], k))]))

ConservedKeys ==
    {k \in UNION {DOMAIN (leftTokens \o rightTokens)[i].at :
                     i \in DOMAIN (leftTokens \o rightTokens)} : k # "COEFF"}

\* C2: after a compute call that finishes without error, for every element
\* symbol and for CHARGE, the sum over the left compounds of coefficient
\* times count equals the same sum over the right compounds.
C2_Conservation ==
    pc = "done" =>
        \A k \in ConservedKeys :
            SideTotal(leftTokens, 0, k)
                = SideTotal(rightTokens, Len(leftTokens), k)

(***************************************************************************)
(* C3                                                                      *)
(***************************************************************************)
\* C3: after a compute call that finishes without error, the compound that
\* carries the default-coefficient marker has exactly its declared value;
\* when no compound carries the marker, the first compound has exactly 1.
C3_Pinning ==
    pc = "done" =>
        LET tokens == leftTokens \o rightTokens
            marked == SelectIdx(tokens, IsDefault)
        IN /\ \A i \in DOMAIN marked :
                  coeffs[marked[i]] = tokens[marked[i]].default[1]
           /\ (marked = <<>> /\ tokens # <<>>) => coeffs[1] = One

(***************************************************************************)
(* C4                                                                      *)
(***************************************************************************)
YieldCount == Cardinality({i \in DOMAIN ast : "YIELD" \in DOMAIN ast[i]})

\* C4: once the yield check of compute has run, it has raised MissingYield
\* exactly when the AST holds no YIELD token, DuplicateYield exactly when it
\* holds two or more, and neither exactly when it holds one; the error is
\* the detail of the syntaxerror event.
C4_SingleYield ==
    YieldCheckActed =>
        /\ (ThrownMessage = MissingYield) <=> (YieldCount = 0)
        /\ (ThrownMessage = DuplicateYield) <=> (YieldCount >= 2)
        /\ (ThrownMessage \notin {MissingYield, DuplicateYield})
               <=> (YieldCount = 1)
        /\ ThrownMessage \in {MissingYield, DuplicateYield} =>
               /\ pc = "failed"
               /\ events = <<[type |-> "syntaxerror", detail |-> thrown[1]]>>

C4_Witness ==
    /\ input = H2 \o <<"=>">> \o H2O \o <<"=>">> \o H2
    /\ ThrownMessage = DuplicateYield

(***************************************************************************)
(* C5                                                                      *)
(***************************************************************************)
SymbolsOf(side) ==
    UNION {DOMAIN side[i].at : i \in DOMAIN side} \ {"CHARGE", "COEFF"}

\* C5: once the element check of compute has run, it has raised
\* ElementMismatch exactly when the set of element symbols of the left
\* compounds differs from that of the right compounds; charges and atom
\* counts play no part ([H*2 O]⇒[H*2 O*2] is not rejected by it).
C5_SameElements ==
    ElementCheckActed =>
        /\ (ThrownMessage = ElementMismatch)
               <=> (SymbolsOf(leftTokens) # SymbolsOf(rightTokens))
        /\ input = H2O \o <<"=>">> \o H2O2 => ThrownMessage # ElementMismatch

C5_Witness ==
    /\ input = H2 \o <<"=>">> \o O2
    /\ ThrownMessage = ElementMismatch

(***************************************************************************)
(* C6                                                                      *)
(***************************************************************************)
\* the top-level matches of the input that are formulas
TopLevelFormulas ==
    SelectSeq(execAll(input, 1),
              LAMBDA m : m.groups.BRACKET # <<>> \/ m.groups.FRM_MULT_A # <<>>
                         \/ m.groups.FRM_MULT_B # <<>>
                         \/ m.groups.FRM_CHARGE # <<>>)

LeadingPinned ==
    Len(SelectSeq(TopLevelFormulas,
                  LAMBDA m : /\ m.groups.BRACKET # <<>>
                             /\ m.groups.FRM_MULT_A # <<>>
                             /\ Truthy(ToNumber(m.groups.FRM_MULT_A))))

\* the product of the multipliers a formula match carries
WrittenCount(m) ==
    RMul(IF m.groups.FRM_MULT_A # <<>> THEN ToNumber(m.groups.FRM_MULT_A)
         ELSE One,
         IF m.groups.FRM_MULT_B # <<>> THEN ToNumber(m.groups.FRM_MULT_B)
         ELSE One)

Pinned ==
    Len(SelectSeq(TopLevelFormulas,
                  LAMBDA m : /\ m.groups.BRACKET # <<>>
                             /\ \/ m.groups.FRM_MULT_A # <<>>
                                \/ m.groups.FRM_MULT_B # <<>>
                             /\ Truthy(WrittenCount(m))))

\* C6 as stated: once the coefficient check has run, it has raised
\* TooManyPinnedCoefficients exactly when more than one top-level formula has
\* a leading multiplier; a trailing ]*n multiplier never pins.
C6_AsStated ==
    CoefficientCheckActed =>
        ((ThrownMessage = TooManyPinnedCoefficients) <=> (LeadingPinned > 1))

\* C6: once the coefficient check has run, it has raised
\* TooManyPinnedCoefficients exactly when more than one top-level formula
\* with a body carries a non-zero multiplier, leading (n*[..]) or trailing
\* ([..]*n); multipliers of nested formulas and of elements never pin.
C6_TooManyPinned ==
    CoefficientCheckActed =>
        ((ThrownMessage = TooManyPinnedCoefficients) <=> (Pinned > 1))

C6_Witness ==
    /\ input = H2 \o <<"*", "2", "+">> \o O2 \o <<"*", "2", "=>">> \o H2O
    /\ ThrownMessage = TooManyPinnedCoefficients

(***************************************************************************)
(* C7                                                                      *)
(***************************************************************************)
\* C7: whenever compute raises an error, the AST is still the one scan
\* returned (no coefficient has been written into a token), state.result
\* keeps its previous value and no computation event has been dispatched;
\* when the error is one of the validator's, solve has not been called; and
\* compute takes no further step after the error.
C7_ErrorsAreTerminal ==
    [][/\ pc' = "failed" =>
              /\ thrown' # <<>>
              /\ ast' = ast
              /\ ast' = scan(input')
              /\ result' = result
              /\ ~HasComputationEvent'
              /\ ThrownMessage' \in ValidatorMessages => solveCalls' = 0
       /\ pc = "failed" => pc' = "scanned"]_vars

C7_Witness ==
    /\ pc = "failed"
    /\ ThrownMessage = SingularSystem
    /\ solveCalls = 1
    /\ ast = scan(input)

(***************************************************************************)
(* C8                                                                      *)
(***************************************************************************)
\* the conservation rows of A (all rows but the pin row) have only the zero
\* solution: their normal matrix is regular
OnlyTrivialSolution ==
    /\ Len(AB.A) > 1
    /\ LET rows == SubSeq(AB.A, 1, Len(AB.A) - 1)
       IN ~solve(rows, Tuple([i \in DOMAIN rows |-> <<Zero>>])).singular

\* C8: when an equation passes the validator checks and its conservation
\* equations have only the zero solution (e.g. [H*2 O]⇒[H*2 O*2]), compute
\* raises SingularSystem and stores no result.
C8_SingularCase ==
    (Finished /\ AB # NoAB /\ OnlyTrivialSolution) =>
        /\ pc = "failed"
        /\ ThrownMessage = SingularSystem
        /\ result = <<>>

(***************************************************************************)
(* C9                                                                      *)
(***************************************************************************)
\* the matches of the scan loop move forward through str, each one consumes
\* at least one character, and every bracket body that scan recurses into is
\* strictly shorter than str and is scanned the same way
RECURSIVE ScanProgresses(_)
ScanProgresses(str) ==
    LET ms == execAll(str, 1)
    IN /\ Len(ms) <= Len(str)
       /\ \A i \in DOMAIN ms :
              /\ ms[i].index >= 1
              /\ ms[i].end > ms[i].index
              /\ ms[i].end <= Len(str) + 1
              /\ i > 1 => ms[i].index >= ms[i - 1].end
              /\ Len(ms[i].groups.BRACKET) > 2 =>
                     /\ Len(ms[i].groups.BRACKET) < Len(str)
                     /\ ScanProgresses(ms[i].groups.BRACKET)

\* characters that start or continue no alternative on their own
Unmatched == {"]", "-", "^", ".", "*", " "}

\* C9: for every input string scan returns an AST; every iteration of its
\* loop consumes at least one character and moves forward, every recursive
\* call gets a strictly shorter string, there is one token per match, and a
\* text that matches no alternative yields no token.
C9_ScanTerminates ==
    pc = "scanned" =>
        /\ ScanProgresses(input)
        /\ Len(ast) = Len(execAll(input, 1))
        /\ (\A i \in DOMAIN input : input[i] \in Unmatched) => ast = <<>>

C9_Witness ==
    /\ pc = "scanned"
    /\ input = <<"[", "H", "^">>
    /\ ast = <<[ELEMENT |-> <<"H">>]>>

(***************************************************************************)
(* C10                                                                     *)
(***************************************************************************)
\* the compounds of an AST: element -> count and CHARGE of every token that
\* simplifies to a compound
Compounds(tree) ==
    LET mapped == Tuple([i \in DOMAIN tree |-> simplifyCompound(tree[i], FALSE)])
        cs     == Defined(mapped, 1, Len(tree))
    IN Tuple([i \in DOMAIN cs |-> cs[i].at])

\* a token that stringify writes in the notation scan reads: an operator, an
\* empty token, or an element whose count is 1 or absent and whose charge
\* is 0 or absent
PlainToken(token) ==
    /\ "BRACKET" \notin DOMAIN token
    /\ "FREE_CHARGE" \notin DOMAIN token
    /\ "ELEMENT" \in DOMAIN token =>
           /\ CountDefault(token) = One
           /\ ChargeOr0(token) = Zero

\* C10 as stated: for every AST a produced by scan, scan(stringify(a)) has
\* the same compounds, with the same element counts and the same charges.
C10_AsStated ==
    pc = "scanned" => Compounds(scan(stringify(ast))) = Compounds(ast)

\* C10: for every AST a produced by scan whose tokens are operators, empty
\* tokens and elements of count 1 and charge 0, scan(stringify(a)) has the
\* same compounds, with the same element counts and the same charges.
C10_RoundTrip ==
    (pc = "scanned" /\ \A i \in DOMAIN ast : PlainToken(ast[i])) =>
        Compounds(scan(stringify(ast))) = Compounds(ast)

C10_Witness ==
    /\ pc = "scanned"
    /\ input = <<"H", " ", "H">>
    /\ Len(Compounds(ast)) = 2
    /\ \A i \in DOMAIN ast : PlainToken(ast[i])

(***************************************************************************)
(* C11                                                                     *)
(***************************************************************************)
\* the tokens of an AST that stand for a compound
CompoundTokens(tree) ==
    SelectSeq(tree, LAMBDA t : "BRACKET" \in DOMAIN t
                               \/ "ELEMENT" \in DOMAIN t
                               \/ "FREE_CHARGE" \in DOMAIN t)

MinusOne == <<-1, 1>>

\* C11: for [H*2 O]+[Mn O*4]^-1-1⇒[Mn O*2]+[O H]^-1 scan yields five
\* compounds (H₂O, MnO₄ with charge -1, a free charge -1, MnO₂, OH with
\* charge -1), compute finishes without error, and the coefficients satisfy
\* (-1)×coeff(MnO₄) + (-1)×coeff(free charge) = (-1)×coeff(OH) together with
\* the conservation of H, O and Mn.
C11_ChargeExample ==
    input = Example5 =>
        /\ pc = "scanned" =>
              /\ Len(CompoundTokens(ast)) = 5
              /\ Compounds(ast) =
                    << [CHARGE |-> Zero, H |-> <<2, 1>>, O |-> One],
                       [CHARGE |-> MinusOne, Mn |-> One, O |-> <<4, 1>>],
                       [CHARGE |-> MinusOne],
                       [CHARGE |-> Zero, Mn |-> One, O |-> <<2, 1>>],
                       [CHARGE |-> MinusOne, O |-> One, H |-> One] >>
              /\ CompoundTokens(ast)[2].CHARGE = MinusOne
              /\ CompoundTokens(ast)[3] = [FREE_CHARGE |-> MinusOne]
              /\ CompoundTokens(ast)[5].CHARGE = MinusOne
        /\ Finished =>
              /\ pc = "done"
              /\ thrown = <<>>
              /\ Len(coeffs) = 5
              /\ RAdd(RMul(MinusOne, coeffs[2]), RMul(MinusOne, coeffs[3]))
                    = RMul(MinusOne, coeffs[5])
              /\ \A k \in {"H", "O", "Mn"} :
                    SideTotal(leftTokens, 0, k)
                        = SideTotal(rightTokens, Len(leftTokens), k)

C11_Witness ==
    /\ input = Example5
    /\ pc = "done"
    /\ Len(leftTokens) = 3
    /\ Len(rightTokens) = 2
    /\ coeffs[3] # Zero

(***************************************************************************)
(* C12                                                                     *)
(***************************************************************************)
\* C12: for [2*Al [S O*3]*3]+[Na O H]⇒[Na*2 S O*3]+[Al [O H]*3] the first
\* compound simplifies to Al:2, S:3, O:9, compute finishes without error,
\* the first compound receives coefficient 1, the other coefficients are
\* the integers 6, 3 and 2, and every element is conserved.
C12_Example2 ==
    input = Example4 =>
        /\ pc \notin {"idle", "scanned", "yieldChecked"} =>
              /\ leftTokens # <<>>
              /\ \A k \in {"Al", "S", "O"} : k \in DOMAIN leftTokens[1].at
              /\ [k \in {"Al", "S", "O"} |-> leftTokens[1].at[k]]
                    = [Al |-> <<2, 1>>, S |-> <<3, 1>>, O |-> <<9, 1>>]
              /\ \A k \in DOMAIN leftTokens[1].at \ {"Al", "S", "O", "COEFF"} :
                    leftTokens[1].at[k] = Zero
        /\ Finished =>
              /\ pc = "done"
              /\ thrown = <<>>
              /\ coeffs = <<One, <<6, 1>>, <<3, 1>>, <<2, 1>>>>
              /\ \A k \in ConservedKeys :
                    SideTotal(leftTokens, 0, k)
                        = SideTotal(rightTokens, Len(leftTokens), k)

C12_Witness ==
    /\ input = Example4
    /\ pc = "done"
    /\ Len(coeffs) = 4
    /\ {"Al", "S", "O", "Na", "H"} \subseteq ConservedKeys

(***************************************************************************)
(* C13                                                                     *)
(***************************************************************************)
SyntaxErrorEvents == SelectSeq(events, LAMBDA e : e.type = "syntaxerror")

\* the text that tells the user which error has happened
DisplayedMessage ==
    IF ThrownMessage = SingularSystem THEN NoSolution ELSE ThrownMessage

\* C13: whenever compute fails with one of the four errors (the three
\* validator errors and the singular system), exactly one syntaxerror event
\* has been dispatched, its detail carries a non-empty message specific to
\* that error (detail.message), and the error handler has drawn that message
\* in the output area.
C13_ErrorsDisplayed ==
    pc = "failed" =>
        /\ ThrownMessage \in ValidatorMessages \cup {SingularSystem}
        /\ Len(SyntaxErrorEvents) = 1
        /\ LET shown == MessageOf(SyntaxErrorEvents[1].detail)
           IN /\ shown # <<>>
              /\ shown[1].value # ""
              /\ shown[1].value = DisplayedMessage
              /\ output.style = "error"
              /\ output.text = shown[1]

(***************************************************************************)
(* C14                                                                     *)
(***************************************************************************)
\* one upper-case letter, optionally followed by one lower-case letter
IsSymbol(cs) ==
    /\ Len(cs) \in 1..2
    /\ cs[1] \in Upper
    /\ Len(cs) = 2 => cs[2] \in Lower

Contains(text, part) ==
    \E k \in 1..(Len(text) - Len(part) + 1) :
        SubSeq(text, k, k + Len(part) - 1) = part

SodiumChloride == <<"[", "N", "a", "]", "+", "[", "C", "l", "*", "2", "]", "=>",
                    "[", "N", "a", " ", "C", "l", "]">>

\* C14: for every top-level formula whose bracket text is one bare element
\* symbol of one or two letters ([H], [Na], [Fe]) the simplified compound
\* contains that element with count 1 and stringify renders the symbol;
\* [Na]+[Cl*2]⇒[Na Cl] passes mustHaveTheSameElements.
C14_BracketedElement ==
    /\ pc = "scanned" =>
          \A i \in DOMAIN ast :
              ("BRACKET" \in DOMAIN ast[i] /\ ~IsArray(ast[i].BRACKET)
                  /\ IsSymbol(ast[i].BRACKET.string)) =>
                  LET symbol   == ast[i].BRACKET.string
                      compound == simplifyCompound(ast[i], FALSE)[1]
                  IN /\ Str(symbol) \in DOMAIN compound.at
                     /\ compound.at[Str(symbol)] = One
                     /\ Contains(stringify(<<ast[i]>>), symbol)
    /\ (input = SodiumChloride /\ ElementCheckActed) =>
          ThrownMessage # ElementMismatch

(***************************************************************************)
(* C15                                                                     *)
(***************************************************************************)
\* the text of the multiplier in front of and behind a matched token
Leading(m) ==
    IF m.groups.FRM_MULT_A # <<>> THEN m.groups.FRM_MULT_A
    ELSE m.groups.ELM_MULT_A
Trailing(m) ==
    IF m.groups.FRM_MULT_B # <<>> THEN m.groups.FRM_MULT_B
    ELSE m.groups.ELM_MULT_B

\* a match of the Formula or of the Element alternative
IsCompoundMatch(m) ==
    m.groups.SUM = <<>> /\ m.groups.FREE_CHARGE = <<>> /\ m.groups.YIELD = <<>>

MergedCount(m) ==
    IF Leading(m) # <<>> /\ Trailing(m) # <<>>
    THEN <<RMul(ToNumber(Leading(m)), ToNumber(Trailing(m)))>>
    ELSE IF Leading(m) # <<>> THEN <<ToNumber(Leading(m))>>
    ELSE IF Trailing(m) # <<>> THEN <<ToNumber(Trailing(m))>>
    ELSE <<>>

CountOf(token) == IF "COUNT" \in DOMAIN token THEN <<token.COUNT>> ELSE <<>>

\* every token of tree, the tokens of its nested formulas included, has the
\* count its match in str writes
RECURSIVE CountsMerged(_, _)
CountsMerged(str, tree) ==
    LET ms == execAll(str, 1)
    IN /\ Len(ms) = Len(tree)
       /\ \A i \in DOMAIN ms :
              /\ IsCompoundMatch(ms[i]) => CountOf(tree[i]) = MergedCount(ms[i])
              /\ ("BRACKET" \in DOMAIN tree[i] /\ IsArray(tree[i].BRACKET)) =>
                     CountsMerged(ms[i].groups.BRACKET, tree[i].BRACKET.array)

\* C15: a token (Element or Formula) written with a leading multiplier a and
\* a trailing multiplier b has the count a × b; written with one multiplier
\* it has that multiplier as count; written with none it has no count.
C15_MultiplierMerging ==
    pc = "scanned" => CountsMerged(input, ast)

C15_Witness ==
    /\ pc = "scanned"
    /\ input = <<"[", "3", "*", "[", "O", " ", "H", "]", "*", "2", " ", "O",
                 " ", "2", "*", "H", "*", "5", "]">>
    /\ IsArray(ast[1].BRACKET)
    /\ ast[1].BRACKET.array[1].COUNT = <<6, 1>>
    /\ "COUNT" \notin DOMAIN ast[1].BRACKET.array[2]
    /\ ast[1].BRACKET.array[3].COUNT = <<10, 1>>
    /\ "COUNT" \notin DOMAIN ast[1]

(***************************************************************************)
(* C16                                                                     *)
(***************************************************************************)
\* the text matched for every Element token of tree, and of its nested
\* formulas, has a ^
RECURSIVE ElementsMandatory(_, _)
ElementsMandatory(str, tree) ==
    LET ms == execAll(str, 1)
    IN \A i \in DOMAIN tree :
          /\ "ELEMENT" \in DOMAIN tree[i] =>
                 "^" \in {str[k] : k \in ms[i].index..(ms[i].end - 1)}
          /\ ("BRACKET" \in DOMAIN tree[i] /\ IsArray(tree[i].BRACKET)) =>
                 ElementsMandatory(ms[i].groups.BRACKET, tree[i].BRACKET.array)

\* every Element token of tree, and of its nested formulas, has a CHARGE
\* exactly when its matched text has a ^, and then the number written
RECURSIVE ElementsOptional(_, _)
ElementsOptional(str, tree) ==
    LET ms == execAll(str, 1)
    IN \A i \in DOMAIN tree :
          /\ "ELEMENT" \in DOMAIN tree[i] =>
                 /\ "CHARGE" \in DOMAIN tree[i]
                        <=> "^" \in {str[k] : k \in ms[i].index..(ms[i].end - 1)}
                 /\ "CHARGE" \in DOMAIN tree[i] =>
                        tree[i].CHARGE = ToNumber(ms[i].groups.ELM_CHARGE)
          /\ ("BRACKET" \in DOMAIN tree[i] /\ IsArray(tree[i].BRACKET)) =>
                 ElementsOptional(ms[i].groups.BRACKET, tree[i].BRACKET.array)

\* C16 as stated: scan produces an Element token only when the element
\* symbol is followed by a ^charge suffix; a symbol without the suffix (the
\* O of H*2 O) is not matched by the Element alternative.
C16_AsStated ==
    pc = "scanned" => ElementsMandatory(input, ast)

\* C16: the charge of an element is optional.  An element symbol is matched
\* by the Element alternative with or without a ^charge suffix: the token
\* has a CHARGE, the number written, exactly when its text has the suffix;
\* the body H*2 O of [H*2 O] scans as the two elements H (count 2) and O,
\* neither with a charge.
C16_OptionalCharge ==
    pc = "scanned" =>
        /\ ElementsOptional(input, ast)
        /\ input = H2O =>
               ast = <<[BRACKET |-> [array |->
                          <<[ELEMENT |-> <<"H">>, COUNT |-> <<2, 1>>],
                            [ELEMENT |-> <<"O">>]>>]]>>

C16_Witness ==
    /\ pc = "scanned"
    /\ input = <<"H", "^", "+", "1", "+", "-", "1", "=>", "H">>
    /\ ast[1] = [ELEMENT |-> <<"H">>, CHARGE |-> One]
    /\ ast[5] = [ELEMENT |-> <<"H">>]

(***************************************************************************)
(* C17                                                                     *)
(***************************************************************************)
\* the names of the Element tokens of tree and of its nested formulas
RECURSIVE ElementTokenNames(_)
ElementTokenNames(tree) ==
    UNION {IF "ELEMENT" \in DOMAIN tree[i] THEN {tree[i].ELEMENT}
           ELSE IF "BRACKET" \in DOMAIN tree[i] /\ IsArray(tree[i].BRACKET)
                THEN ElementTokenNames(tree[i].BRACKET.array)
                ELSE {} : i \in DOMAIN tree}

\* C17: the name of every Element token produced by scan is one upper-case
\* letter optionally followed by one lower-case letter; OH scans as the two
\* elements O and H, and the all-lower-case text na produces no Element
\* token.
C17_SymbolShape ==
    pc = "scanned" =>
        /\ \A name \in ElementTokenNames(ast) : IsSymbol(name)
        /\ input = <<"O", "H">> =>
               ast = <<[ELEMENT |-> <<"O">>], [ELEMENT |-> <<"H">>]>>
        /\ input = <<"n", "a">> => ElementTokenNames(ast) = {}

(***************************************************************************)
(* C18                                                                     *)
(***************************************************************************)
\* the count written on a token, 1 when none is written
WrittenOr1(token) == IF "COUNT" \in DOMAIN token THEN token.COUNT ELSE One

\* the sum over the occurrences of symbol in body of the element's count
\* times factor times the counts of the nested formulas around it
RECURSIVE AtomTotal(_, _, _)
AtomTotal(body, symbol, factor) ==
    RSum(Tuple([i \in DOMAIN body |->
        IF "ELEMENT" \in DOMAIN body[i]
        THEN IF body[i].ELEMENT = symbol
             THEN RMul(factor, WrittenOr1(body[i])) ELSE Zero
        ELSE IF "BRACKET" \in DOMAIN body[i] /\ IsArray(body[i].BRACKET)
        THEN AtomTotal(body[i].BRACKET.array, symbol,
                       RMul(factor, WrittenOr1(body[i])))
        ELSE Zero]))

\* the element counts of an abstract token
AtomsOf(abstract) ==
    [k \in DOMAIN abstract.at \ {"CHARGE"} |-> abstract.at[k]]

\* C18: for every formula token with a scanned body, simplifyCompound
\* returns for each element symbol the sum over all body occurrences of the
\* element's count times the product of the counts of all enclosing nested
\* formulas, a nested formula without a multiplier counting as 1 and the
\* top-level formula's own count being taken as 1; [C H*3 C O O H] gives
\* C:2, H:4, O:2 and [A [B [C*2]*3]*4] gives C:24.
C18_SimplifierMultipliers ==
    pc = "scanned" =>
        /\ \A i \in DOMAIN ast :
              ("BRACKET" \in DOMAIN ast[i] /\ IsArray(ast[i].BRACKET)) =>
                  LET body  == ast[i].BRACKET.array
                      names == ElementTokenNames(body)
                      atoms == AtomsOf(simplifyCompound(ast[i], FALSE)[1])
                  IN /\ DOMAIN atoms = {Str(n) : n \in names}
                     /\ \A n \in names :
                            atoms[Str(n)] = AtomTotal(body, n, One)
        /\ input = AceticAcid =>
              AtomsOf(simplifyCompound(ast[1], FALSE)[1])
                  = [C |-> <<2, 1>>, H |-> <<4, 1>>, O |-> <<2, 1>>]
        /\ input = ThreeDeep =>
              AtomsOf(simplifyCompound(ast[1], FALSE)[1]).C = <<24, 1>>

(***************************************************************************)
(* simplifyCompound as a function of its own: the token is drawn from the  *)
(* formula tokens with a body of at most MaxBody items, an item being an   *)
(* element, a free charge or a nested formula, with and without count and  *)
(* charge; the call is made with branch false (as compute does) and true   *)
(* (as the recursion does).  The token is kept in ast, the result in       *)
(* mappedAST.                                                              *)
(***************************************************************************)
MaxBody == 2

WithField(token, key, opt) ==
    IF opt = <<>> THEN token ELSE token @@ (key :> opt[1])

ElementTokens ==
    {[ELEMENT |-> <<"H">>],
     [ELEMENT |-> <<"H">>, CHARGE |-> <<-1, 1>>],
     [ELEMENT |-> <<"O">>, COUNT |-> <<2, 1>>, CHARGE |-> One]}

NestedTokens ==
    {WithField(WithField([BRACKET |-> [array |-> <<e>>]], "COUNT", c),
               "CHARGE", q) :
        e \in ElementTokens, c \in {<<>>, <<<<3, 1>>>>}, q \in {<<>>, <<One>>}}

BodyItems == ElementTokens \cup NestedTokens \cup {[FREE_CHARGE |-> <<2, 1>>]}

RECURSIVE Bodies(_)
Bodies(k) ==
    IF k = 0 THEN {<<>>}
    ELSE {Append(b, item) : b \in Bodies(k - 1), item \in BodyItems}

FormulaTokens ==
    {WithField(WithField([BRACKET |-> [array |-> b]], "COUNT", c),
               "CHARGE", q) :
        b \in UNION {Bodies(k) : k \in 1..MaxBody},
        c \in {<<>>, <<<<2, 1>>>>}, q \in {<<>>, <<<<-2, 1>>>>}}

InitSimplify ==
    /\ input = <<>>
    /\ pc = "token"
    /\ ast \in {<<token>> : token \in FormulaTokens}
    /\ mappedAST = <<>>
    /\ leftTokens = <<>>
    /\ rightTokens = <<>>
    /\ AB = NoAB
    /\ coeffs = <<>>
    /\ result = <<>>
    /\ events = <<>>
    /\ thrown = <<>>
    /\ solveCalls = 0
    /\ output = handleOutputUpdate(<<>>, input, <<>>)
    /\ InitConsole
    /\ InitPress

\* simplifyCompound(token, branch)
SimplifyCompound ==
    /\ pc = "token"
    /\ \E branch \in BOOLEAN :
           mappedAST' = <<simplifyCompound(ast[1], branch)>>
    /\ pc' = "abstract"
    /\ UNCHANGED <<input, ast, leftTokens, rightTokens, AB, coeffs, result,
                   events, thrown, solveCalls, output>>
    /\ UNCHANGED <<console, press>>

NextSimplify == SimplifyCompound

SpecSimplify == InitSimplify /\ [][NextSimplify]_vars

(***************************************************************************)
(* C19                                                                     *)
(***************************************************************************)
\* a token of the body, or of a nested body, carries a charge other than 0
RECURSIVE CarriesCharge(_)
CarriesCharge(body) ==
    \E i \in DOMAIN body :
        \/ "CHARGE" \in DOMAIN body[i] /\ body[i].CHARGE # Zero
        \/ "BRACKET" \in DOMAIN body[i] /\ IsArray(body[i].BRACKET)
               /\ CarriesCharge(body[i].BRACKET.array)

CompoundList == leftTokens \o rightTokens

\* the symbols of all compounds, the charge key included
SymbolSet == UNION {DOMAIN CompoundList[j].at : j \in DOMAIN CompoundList}

\* where a symbol is seen first: the first compound that has it and its
\* place among the keys of that compound
FirstCompound(s) ==
    CHOOSE j \in DOMAIN CompoundList :
        /\ s \in DOMAIN CompoundList[j].at
        /\ \A k \in 1..(j - 1) : s \notin DOMAIN CompoundList[k].at
KeyPlace(s) ==
    CHOOSE p \in DOMAIN CompoundList[FirstCompound(s)].keys :
        CompoundList[FirstCompound(s)].keys[p] = s
SeenBefore(s, t) ==
    \/ FirstCompound(s) < FirstCompound(t)
    \/ FirstCompound(s) = FirstCompound(t) /\ KeyPlace(s) < KeyPlace(t)

\* the symbol of row i in first-seen order
RowSymbol(i) ==
    CHOOSE s \in SymbolSet :
        Cardinality({t \in SymbolSet : SeenBefore(t, s)}) = i - 1

PinnedColumns == SelectIdx(CompoundList, IsDefault)

\* the shape and the content of the system for the current compound lists
SystemShape ==
        LET rows   == Cardinality(SymbolSet)
            cols   == Len(CompoundList)
            pinned == IF PinnedColumns = <<>> THEN 1 ELSE PinnedColumns[1]
            value  == IF PinnedColumns = <<>> THEN One
                      ELSE CompoundList[PinnedColumns[1]].default[1]
        IN /\ Len(AB.A) = rows + 1
           /\ Len(AB.B) = rows + 1
           /\ \A i \in DOMAIN AB.A : Len(AB.A[i]) = cols
           /\ \A i \in 1..rows : \A j \in 1..cols :
                  AB.A[i][j] =
                      IF j <= Len(leftTokens)
                      THEN ValueOr0(CompoundList[j], RowSymbol(i))
                      ELSE RNeg(ValueOr0(CompoundList[j], RowSymbol(i)))
           /\ \A j \in 1..cols :
                  AB.A[rows + 1][j] = IF j = pinned THEN One ELSE Zero
           /\ \A i \in 1..rows : AB.B[i] = <<Zero>>
           /\ AB.B[rows + 1] = <<value>>

\* C20 as stated: for any left and right compound lists makeAandB returns A
\* with one row per distinct symbol of the compounds (the charge key
\* included) plus one, and one column per compound, the rows in first-seen
\* symbol order; the entry of a symbol and a compound is +count for a left
\* compound, -count for a right compound and 0 when the compound lacks the
\* symbol; the last row of A is all zeros except a single 1 in the pinned
\* compound's column (the first column when none is pinned); B is zero in
\* every row except the last, which holds the pinned value (1 by default).
C20_AsStated ==
    pc = "built" => SystemShape

\* C20: the same for any left and right compound lists with at least one
\* compound between them; with no compound at all A is the single row [1]
\* (one column, although there is no compound) and B is the single row [1].
C20_SystemShape ==
    pc = "built" =>
        IF CompoundList # <<>> THEN SystemShape
        ELSE AB = [A |-> <<<<One>>>>, B |-> <<<<One>>>>]

C20_Witness ==
    /\ pc = "built"
    /\ Len(leftTokens) = 2
    /\ Len(rightTokens) = 1
    /\ PinnedColumns = <<3>>
    /\ AB.B[Len(AB.B)] = <<<<3, 1>>>>
    /\ \E i \in DOMAIN AB.A : RGt(Zero, AB.A[i][3])

(***************************************************************************)
(* solve as a function of its own: A has up to MaxRows rows and one or two *)
(* columns with entries -1, 0, 1, 2; B is a column of 0 and 1 with one     *)
(* row per row of A.  The pair is kept in AB, as it is after makeAandB,    *)
(* and the step taken is the solver step of compute.                       *)
(***************************************************************************)
MaxRows == 2

Widths == {1, 2}
EntriesA == {<<-1, 1>>, Zero, One, <<2, 1>>}
EntriesB == {Zero, One}

RECURSIVE Vectors(_, _)
Vectors(n, entries) ==
    IF n = 0 THEN {<<>>}
    ELSE {Append(v, e) : v \in Vectors(n - 1, entries), e \in entries}

Column(xs) == Tuple([i \in DOMAIN xs |-> <<xs[i]>>])

InitSolve ==
    /\ input = <<>>
    /\ pc = "built"
    /\ ast = <<>>
    /\ mappedAST = <<>>
    /\ leftTokens = <<>>
    /\ rightTokens = <<>>
    /\ \E m \in 1..MaxRows, n \in Widths :
         \E a \in Vectors(m, Vectors(n, EntriesA)), b \in Vectors(m, EntriesB) :
            AB = [A |-> a, B |-> Column(b)]
    /\ coeffs = <<>>
    /\ result = <<>>
    /\ events = <<>>
    /\ thrown = <<>>
    /\ solveCalls = 0
    /\ output = handleOutputUpdate(<<>>, input, <<>>)
    /\ InitConsole
    /\ InitPress

NextSolve == Solve

SpecSolve == InitSolve /\ [][NextSolve]_vars

(***************************************************************************)
(* C21                                                                     *)
(***************************************************************************)
\* the matrix without its first row and its column j
Minor(M, j) ==
    Tuple([r \in 1..(Len(M) - 1) |->
        Tuple([c \in 1..(Len(M) - 1) |->
            M[r + 1][IF c < j THEN c ELSE c + 1]])])

\* the determinant, expanded along the first row
RECURSIVE Det(_)
Det(M) ==
    IF Len(M) = 1 THEN M[1][1]
    ELSE RSum(Tuple([j \in 1..Len(M) |->
             LET d == RMul(M[1][j], Det(Minor(M, j)))
             IN IF j % 2 = 1 THEN d ELSE RNeg(d)]))

RECURSIVE GroupsIn(_)
GroupsIn(body) ==
    IF body = <<>> THEN 0
    ELSE (IF "BRACKET" \in DOMAIN Head(body)
          THEN 1 + (IF IsArray(Head(body).BRACKET)
                    THEN GroupsIn(Head(body).BRACKET.array) ELSE 0)
          ELSE 0)
         + GroupsIn(Tail(body))

Occurrences(cs, c) == Len(SelectSeq(cs, LAMBDA x : x = c))

SuperGlyphs == {"sup0", "sup1", "sup2", "sup3", "sup4", "sup5", "sup6",
                "sup7", "sup8", "sup9", "sup.", "sup+", "sup-"}

\* C22: the rendering of a top-level formula opens one parenthesis for every
\* nested formula of its body, with or without a multiplier, so no nested
\* group is dropped; a charge of zero renders no superscript.
C22_NestedRendering ==
    pc = "scanned" =>
        \A i \in DOMAIN ast :
            "BRACKET" \in DOMAIN ast[i] /\ IsArray(ast[i].BRACKET) =>
                LET str == stringifyFormula(ast[i], TRUE)
                IN /\ Occurrences(str, "(") = GroupsIn(ast[i].BRACKET.array)
                   /\ ChargeOr0(ast[i]) = Zero =>
                          \A k \in DOMAIN str : str[k] \notin SuperGlyphs

(***************************************************************************)
(* C23                                                                     *)
(***************************************************************************)
\* opening minus closing brackets among the first k characters
RECURSIVE Depth(_, _)
Depth(cs, k) ==
    IF k = 0 THEN 0
    ELSE Depth(cs, k - 1)
         + (IF cs[k] = "[" THEN 1 ELSE IF cs[k] = "]" THEN -1 ELSE 0)

\* every closing bracket closes an opening bracket of the same text
Balanced(cs) ==
    /\ Depth(cs, Len(cs)) = 0
    /\ \A k \in 1..Len(cs) : Depth(cs, k) >= 0

\* every bracket body matched in str, and in the bodies scan recurses into,
\* is balanced
RECURSIVE GroupsPaired(_)
GroupsPaired(str) ==
    LET ms == execAll(str, 1)
    IN \A i \in DOMAIN ms :
          /\ Balanced(ms[i].groups.BRACKET)
          /\ Len(ms[i].groups.BRACKET) > 2 =>
                 GroupsPaired(ms[i].groups.BRACKET)

\* C23: in an input whose brackets are balanced every bracket group taken by
\* scan ends at the closing bracket of its own opening bracket, also when
\* groups stand side by side in a body, and [Ca [O H]*2 [N O*3]*3]
\* simplifies to Ca:1, O:11, H:2, N:3.
C23_SiblingGroups ==
    /\ (pc = "scanned" /\ Balanced(input)) => GroupsPaired(input)
    /\ (pc = "simplified" /\ input = SiblingGroups) =>
           AtomsOf(mappedAST[1][1])
               = [Ca |-> One, O |-> <<11, 1>>, H |-> <<2, 1>>, N |-> <<3, 1>>]

(***************************************************************************)
(* C24                                                                     *)
(***************************************************************************)
\* the element counts and the charge of a token, as simplifyCompound gives
\* them
Composition(token) ==
    LET abstract == simplifyCompound(token, FALSE)[1]
    IN [atoms |-> AtomsOf(abstract), charge |-> abstract.at.CHARGE]

IsCompoundToken(token) ==
    "ELEMENT" \in DOMAIN token \/ "BRACKET" \in DOMAIN token

\* C24: after a compute that finished without error every top-level element
\* or formula token has the element counts and the charge it had when it
\* was scanned; only its coefficient has changed.
C24_WriteBackCoefficientsOnly ==
    pc = "done" =>
        \A idx \in DOMAIN ast :
            IsCompoundToken(ast[idx]) =>
                Composition(ast[idx]) = Composition(scan(input)[idx])

(***************************************************************************)
(* C25                                                                     *)
(***************************************************************************)
\* the places compute can be at after one more step
StepsAfter(at) ==
    CASE at \in {"idle", "done", "failed"} -> {"scanned"}
      [] at = "scanned"            -> {"yieldChecked", "failed"}
      [] at = "yieldChecked"       -> {"simplified"}
      [] at = "simplified"         -> {"elementsChecked", "failed"}
      [] at = "elementsChecked"    -> {"coefficientChecked", "failed"}
      [] at = "coefficientChecked" -> {"built"}
      [] at = "built"              -> {"solved", "failed"}
      [] at = "solved"             -> {"updated"}
      [] at = "updated"            -> {"done"}
      [] OTHER                     -> {}

\* the compounds on the two sides of the first yield of a tree
SidesOf(tree) ==
    LET index  == indexOfYield(tree)
        mapped == Tuple([i \in DOMAIN tree |-> simplifyCompound(tree[i], FALSE)])
    IN [left  |-> Defined(mapped, 1, index - 1),
        right |-> Defined(mapped, index + 1, Len(tree))]

Mismatch == SymbolsOf(SidesOf(ast).left) # SymbolsOf(SidesOf(ast).right)

\* C25: compute goes through the yield check, the simplification, the
\* element check, the pinned-coefficient check, the building of A and B and
\* the solver in this order and stops at the first failure: a failing
\* compute has dispatched exactly one syntaxerror event, and the error is
\* the yield error when the yield count is not one, else ElementMismatch
\* when the sides differ in elements, else TooManyPinnedCoefficients when
\* more than one formula is pinned, else the singular system.
C25_OrderOfChecks ==
    [][/\ pc' \in StepsAfter(pc)
       /\ pc' = "failed" =>
             /\ Len(events') = 1
             /\ events'[1].type = "syntaxerror"
             /\ CASE YieldCount # 1 ->
                       /\ pc = "scanned"
                       /\ ThrownMessage' \in {MissingYield, DuplicateYield}
                  [] YieldCount = 1 /\ Mismatch ->
                       /\ pc = "simplified"
                       /\ ThrownMessage' = ElementMismatch
                  [] YieldCount = 1 /\ ~Mismatch /\ Pinned > 1 ->
                       /\ pc = "elementsChecked"
                       /\ ThrownMessage' = TooManyPinnedCoefficients
                  [] OTHER ->
                       /\ pc = "built"
                       /\ ThrownMessage' = SingularSystem]_vars

\* [H*2]*2+[O*2]*2⇒[H*2]: an element mismatch and two pinned formulas
C25_Witness ==
    /\ pc = "failed"
    /\ input = H2 \o <<"*", "2", "+">> \o O2 \o <<"*", "2", "=>">> \o H2
    /\ Pinned = 2
    /\ ThrownMessage = ElementMismatch
    /\ Len(events) = 1

(***************************************************************************)
(* The callbacks of the keys.  Each one is the whole callback: the setters *)
(* it calls and the listeners of the events those dispatch.  A callback    *)
(* leaves focusArea and the long-press variables to the handler that       *)
(* called it.                                                              *)
(***************************************************************************)
MaxCommand == 3

\* handleAllClear, the listener of SHIFT+0
handleAllClear ==
    /\ cursor' = setCursor(0, command)
    /\ setCommand(<<Blank>>)

\* handleCompution, the listener of SHIFT+1: compute(scan(command.join("")))
\* is entered; its steps follow one at a time
handleCompution ==
    /\ input' = join(GetCommand(command))
    /\ ast' = scan(join(GetCommand(command)))
    /\ pc' = "scanned"
    /\ mappedAST' = <<>>
    /\ leftTokens' = <<>>
    /\ rightTokens' = <<>>
    /\ AB' = NoAB
    /\ coeffs' = <<>>
    /\ events' = <<>>
    /\ thrown' = <<>>
    /\ solveCalls' = 0

\* handleCopyToClipboard, the listener of SHIFT+2
handleCopyToClipboard == clipboard' = result

\* document.dispatchEvent(SHIFT+key) with its listeners, then setShift(false);
\* the dispatch of SHIFT+1 returns when compute has ended
dispatchShift(key) ==
    IF key = <<"0">>
    THEN /\ handleAllClear
         /\ shift' = FALSE
         /\ UNCHANGED <<pipeline, currentElement, clipboard, caller>>
    ELSE IF key = <<"1">>
    THEN /\ handleCompution
         /\ caller' = "SHIFT+1"
         /\ UNCHANGED <<command, cursor, shift, currentElement, clipboard,
                        result, output>>
    ELSE IF key = <<"2">>
    THEN /\ handleCopyToClipboard
         /\ shift' = FALSE
         /\ UNCHANGED <<pipeline, command, cursor, currentElement, caller,
                        result, output>>
    ELSE /\ shift' = FALSE
         /\ UNCHANGED <<pipeline, command, cursor, currentElement, clipboard,
                        caller, result, output>>

\* [...command.slice(0, cursor), key, ...command.slice(cursor)]
Inserted(key) ==
    slice(GetCommand(command), 0, cursor) \o <<key>>
    \o slice(GetCommand(command), cursor, Len(GetCommand(command)))

\* faulty variant of defaultCallbackFn: shift is left held after the event
defaultCallbackFn_KeepsShift(btn) ==
    IF ~(isElement(btn) \/ isKey(btn) \/ isShift(btn))
    THEN UNCHANGED <<pipeline, result, output, command, cursor, shift,
                     currentElement, clipboard, caller, handled>>
    ELSE IF shift
    THEN /\ handled' = Handled(btn, <<"SHIFT+">> \o btn.key)
         /\ UNCHANGED <<pipeline, result, output, command, cursor, shift,
                        currentElement, clipboard, caller>>
    ELSE /\ handled' = Handled(btn, <<>>)
         /\ currentElement' = IF isElement(btn) THEN btn ELSE currentElement
         /\ setCommand(Inserted(btn.key))
         /\ cursor' = setCursor(cursor + (IF isElement(btn) THEN 2 ELSE 1),
                                Inserted(btn.key))
         /\ UNCHANGED <<pipeline, shift, clipboard, caller>>

\* defaultCallbackFn(state, btn)
defaultCallbackFn(btn) ==
    IF ~(isElement(btn) \/ isKey(btn) \/ isShift(btn))
    THEN UNCHANGED <<pipeline, result, output, command, cursor, shift,
                     currentElement, clipboard, caller, handled>>
    ELSE IF shift
    THEN /\ handled' = Handled(btn, <<"SHIFT+">> \o btn.key)
         /\ dispatchShift(btn.key)
    ELSE /\ handled' = Handled(btn, <<>>)
         /\ currentElement' = IF isElement(btn) THEN btn ELSE currentElement
         /\ setCommand(Inserted(btn.key))
         /\ cursor' = setCursor(cursor + (IF isElement(btn) THEN 2 ELSE 1),
                                Inserted(btn.key))
         /\ UNCHANGED <<pipeline, shift, clipboard, caller>>

\* the array DEL stores when the cursor has been moved to the place moved
Removed(moved) ==
    slice(GetCommand(command), 0, moved)
    \o slice(GetCommand(command), moved + 1, Len(GetCommand(command)))

\* the place of the cursor after the first setCursor of DEL
MovedLeft == IF cursor > 0 THEN setCursor(cursor - 1, command) ELSE cursor

\* faulty variant of the callback of DEL: the entry under the cursor goes
DEL_AtCursor ==
    /\ handled' = Handled(KeyDEL, <<>>)
    /\ IF Len(GetCommand(command)) = 1 /\ GetCommand(command)[1] = Blank
       THEN UNCHANGED <<command, cursor, result, output>>
       ELSE /\ cursor' = IF cursor >= Len(Removed(cursor))
                         THEN setCursor(cursor - 1, command) ELSE cursor
            /\ setCommand(Removed(cursor))
    /\ UNCHANGED <<pipeline, shift, currentElement, clipboard, caller>>

\* the callback of DEL
DEL ==
    /\ handled' = Handled(KeyDEL, <<>>)
    /\ IF Len(GetCommand(command)) = 1 /\ GetCommand(command)[1] = Blank
       THEN UNCHANGED <<command, cursor, result, output>>
       ELSE /\ cursor' = IF MovedLeft >= Len(Removed(MovedLeft))
                         THEN setCursor(MovedLeft - 1, command) ELSE MovedLeft
            /\ setCommand(Removed(MovedLeft))
    /\ UNCHANGED <<pipeline, shift, currentElement, clipboard, caller>>

\* the callback of the space key [-]
Space ==
    /\ handled' = Handled(KeySpace, <<>>)
    /\ setCommand(Inserted(Blank))
    /\ cursor' = setCursor(cursor + 1, Inserted(Blank))
    /\ UNCHANGED <<pipeline, shift, currentElement, clipboard, caller>>

\* the neighbour of the current element, by columns to the right
Neighbour(by) ==
    <<getElementIndex(currentElement)[1], getElementIndex(currentElement)[2] + by>>

\* the callbacks of the arrow keys: by is -1 for the left and 1 for the right
\* arrow
Arrow(cell, by) ==
    /\ handled' = Handled(cell, <<>>)
    /\ IF focusArea = "CONSOLE"
       THEN /\ cursor' = setCursor(cursor + by, command)
            /\ UNCHANGED currentElement
       ELSE /\ currentElement' =
                  IF Neighbour(by) \in DOMAIN table
                     /\ isElement(table[Neighbour(by)])
                  THEN table[Neighbour(by)] ELSE currentElement
            /\ UNCHANGED cursor
    /\ UNCHANGED <<pipeline, result, output, command, shift, clipboard, caller>>

\* the callback of the shift key: setShift(!shift)
Shift ==
    /\ handled' = Handled(TableShift, <<>>)
    /\ shift' = ~shift
    /\ UNCHANGED <<pipeline, result, output, command, cursor, currentElement,
                   clipboard, caller>>

\* val.cbFn(state) for the keys that have a callback of their own
cbFn(cell) ==
    IF cell = KeyDEL THEN DEL
    ELSE IF cell = KeySpace THEN Space
    ELSE IF cell = KeyLeft THEN Arrow(cell, -1)
    ELSE IF cell = KeyRight THEN Arrow(cell, 1)
    ELSE Shift

\* call: if (!e.detail.cbFn) defaultCallbackFn(state, e.detail)
\* else e.detail.cbFn(state)
Invoke(cell) == IF cell.cbFn THEN cbFn(cell) ELSE defaultCallbackFn(cell)

\* no event is being dispatched and no compute is under way
Ready == caller = "none" /\ pc \in {"idle", "done", "failed"}

\* the callback of the cell stays within what the model follows: commands of
\* up to MaxCommand entries are edited, the current element stays on the
\* cells of table
WithinBounds(cell) ==
    IF cell = KeyDEL THEN Len(command) <= MaxCommand
    ELSE IF cell = KeySpace THEN Len(command) < MaxCommand
    ELSE IF cell \in {KeyLeft, KeyRight}
    THEN focusArea = "CONSOLE"
         \/ Charted(Neighbour(IF cell = KeyLeft THEN -1 ELSE 1))
    ELSE IF cell.cbFn THEN TRUE
    ELSE shift \/ Len(command) < MaxCommand

(***************************************************************************)
(* The console, one callback at a time: a key is pressed and released and  *)
(* its callback runs once.  The pointer handlers show as the two focus     *)
(* steps.                                                                  *)
(***************************************************************************)
\* the keys pressed: H and the yield sign with shift held or released, the
\* digits 0, 1 and 2 with shift held
Elements == {Hydrogen}
PlainKeys == {KeyYield}
DigitKeys == {Key0, Key1, Key2}

InitEditor ==
    /\ input = <<>>
    /\ pc = "idle"
    /\ ast = <<>>
    /\ mappedAST = <<>>
    /\ leftTokens = <<>>
    /\ rightTokens = <<>>
    /\ AB = NoAB
    /\ coeffs = <<>>
    /\ result = <<>>
    /\ events = <<>>
    /\ thrown = <<>>
    /\ solveCalls = 0
    /\ InitConsole
    /\ InitPress
    /\ output = handleOutputUpdate(<<>>, join(GetCommand(command)), <<>>)

\* the callback of a cell is called once
Called(cell) ==
    /\ WithinBounds(cell)
    /\ Invoke(cell)
    /\ UNCHANGED <<focusArea, press>>

ElementKey ==
    /\ Ready
    /\ \E btn \in Elements : Called(btn)

PlainKey ==
    /\ Ready
    /\ \E btn \in PlainKeys \cup DigitKeys :
           /\ btn \in DigitKeys => shift
           /\ Called(btn)

SpaceKey ==
    /\ Ready
    /\ Called(KeySpace)

DeleteKey ==
    /\ Ready
    /\ Called(KeyDEL)

LeftKey ==
    /\ Ready
    /\ Called(KeyLeft)

RightKey ==
    /\ Ready
    /\ Called(KeyRight)

\* handlePointerDown on the shift key calls its callback at once
ShiftKey ==
    /\ Ready
    /\ Called(TableShift)

\* handlePointerUp on an element: state.setFocusArea(TYPE.ELEMENT)
FocusElement ==
    /\ Ready
    /\ focusArea' = "ELEMENT"
    /\ UNCHANGED <<pipeline, result, output, command, cursor, shift,
                   currentElement, clipboard, caller, handled, press>>

\* handlePointerDown or handlePointerUp on the console:
\* state.setFocusArea(TYPE.CONSOLE)
FocusConsole ==
    /\ Ready
    /\ focusArea' = "CONSOLE"
    /\ UNCHANGED <<pipeline, result, output, command, cursor, shift,
                   currentElement, clipboard, caller, handled, press>>

\* compute has ended, by its return or by its throw, and its locals are gone:
\* dispatchEvent returns and defaultCallbackFn goes on with
\* state.setShift(false)
Return ==
    /\ caller = "SHIFT+1"
    /\ pc \in {"done", "failed"}
    /\ shift' = FALSE
    /\ caller' = "none"
    /\ input' = <<>>
    /\ pc' = "idle"
    /\ ast' = <<>>
    /\ mappedAST' = <<>>
    /\ leftTokens' = <<>>
    /\ rightTokens' = <<>>
    /\ AB' = NoAB
    /\ coeffs' = <<>>
    /\ events' = <<>>
    /\ thrown' = <<>>
    /\ solveCalls' = 0
    /\ UNCHANGED <<result, output, command, cursor, currentElement, focusArea,
                   clipboard, handled, press>>

NextEditor ==
    \/ ElementKey
    \/ PlainKey
    \/ SpaceKey
    \/ DeleteKey
    \/ LeftKey
    \/ RightKey
    \/ ShiftKey
    \/ FocusElement
    \/ FocusConsole
    \/ MustHaveOneYield
    \/ Simplify
    \/ MustHaveTheSameElements
    \/ MustHaveLessThanTwoCoefficient
    \/ MakeAandB
    \/ Solve
    \/ UpdateCoefficients
    \/ SetResult
    \/ Return

SpecEditor == InitEditor /\ [][NextEditor]_vars

(***************************************************************************)
(* C26                                                                     *)
(***************************************************************************)
\* C26: from the initial state and after any sequence of key callbacks the
\* stored command is non-empty, its last entry is the blank, and the cursor is
\* a place of the command: 0 <= cursor <= command.length - 1, never -1
C26_EditorInvariant ==
    /\ Len(command) > 0
    /\ command[Len(command)] = Blank
    /\ 0 <= cursor
    /\ cursor <= Len(command) - 1

\* DEL has taken the last key out of a command: the blank alone is left and
\* the cursor is at 0
C26_Witness ==
    /\ handled.cell = KeyDEL
    /\ command = <<Blank>>
    /\ cursor = 0

(***************************************************************************)
(* C27                                                                     *)
(***************************************************************************)
\* what compute makes of a solved system: the syntax tree with the rounded
\* coefficients written back, as text; nothing when the system is singular
RenderSolved(tree, mapped, r) ==
    IF r.singular THEN <<>>
    ELSE stringify(updateAST(tree, mapped,
                             Tuple([i \in DOMAIN r.x |-> Round4(r.x[i])])))

SolveSystem(ab) == solve(ab.A, ab.B)

RenderSides(tree, mapped, left, right) ==
    IF mustHaveTheSameElements(left, right) # <<>>
       \/ mustHaveLessThanTwoCoefficient(left, right) # <<>>
    THEN <<>>
    ELSE RenderSolved(tree, mapped, SolveSystem(makeAandB(left, right)))

RenderMapped(tree, mapped) ==
    RenderSides(tree, mapped,
                Defined(mapped, 1, indexOfYield(tree) - 1),
                Defined(mapped, indexOfYield(tree) + 1, Len(tree)))

RenderTree(tree) ==
    IF mustHaveOneYield(tree) # <<>> THEN <<>>
    ELSE RenderMapped(tree, Tuple([i \in DOMAIN tree |->
                                      simplifyCompound(tree[i], FALSE)]))

\* the text a compute of the string stores as the result; nothing when that
\* compute ends with an error
Rendering(str) == RenderTree(scan(str))

\* C27: in every state the result is empty or the rendering computed from the
\* command as it is now; a step that changes the command empties the result,
\* only the last step of a compute without error stores one, and SHIFT+2
\* copies the result of that moment
C27_NoStaleResult ==
    /\ [](result # <<>> => result = Rendering(join(GetCommand(command))))
    /\ [][/\ command' # command => result' = <<>>
          /\ (result' # result /\ result' # <<>>) =>
                 (pc = "updated" /\ pc' = "done" /\ thrown' = <<>>)
          /\ clipboard' # clipboard => clipboard' = result]_vars

\* a command has been typed and computed without error, the cursor has been
\* moved and SHIFT+2 has copied the result of the command in the console
C27_Witness ==
    /\ command = <<<<"=>">>, Blank>>
    /\ result # <<>>
    /\ cursor = 0
    /\ handled = Handled(Key2, <<"SHIFT+", "2">>)
    /\ clipboard = result

(***************************************************************************)
(* C28                                                                     *)
(***************************************************************************)
\* the keys defaultCallbackFn is called for
DefaultKeys == Elements \cup PlainKeys \cup DigitKeys

\* the command with the key put in at the place of the cursor
WithKeyAt(cmd, place, key) ==
    SubSeq(cmd, 1, place) \o <<key>> \o SubSeq(cmd, place + 1, Len(cmd))

\* the step of defaultCallbackFn with shift released: the key is inserted at
\* the cursor
InsertsKey(btn) ==
    (Ready /\ ~shift /\ Called(btn)) =>
        (command' = WithKeyAt(command, cursor, btn.key) /\ shift' = FALSE)

\* C28 as stated: a step of defaultCallbackFn with shift held does not insert
\* the key, leaves the cursor and the current element as they are and ends
\* with shift released (for SHIFT+1 when compute has returned); with shift
\* released the key is inserted at the cursor
C28_AsStated ==
    [][\A btn \in DefaultKeys :
          /\ (Ready /\ shift /\ Called(btn)) =>
                 /\ command' # WithKeyAt(command, cursor, btn.key)
                 /\ cursor' = cursor
                 /\ currentElement' = currentElement
                 /\ shift' = FALSE \/ caller' = "SHIFT+1"
          /\ InsertsKey(btn)]_vars

\* C28: a step of defaultCallbackFn with shift held does not insert the key
\* and leaves the current element; it leaves the command and the cursor too,
\* except that the listener of SHIFT+0 stores the blank command and puts the
\* cursor at 0; it ends with shift released (for SHIFT+1 when compute has
\* returned), and after a shifted press shift is released.  With shift
\* released the key is inserted at the cursor.
C28_StickyShift ==
    /\ []((handled.event # <<>> /\ caller = "none") => ~shift)
    /\ [][\A btn \in DefaultKeys :
             /\ (Ready /\ shift /\ Called(btn)) =>
                    /\ handled' = Handled(btn, <<"SHIFT+">> \o btn.key)
                    /\ IF btn = Key0
                       THEN command' = <<Blank>> /\ cursor' = 0
                       ELSE command' = command /\ cursor' = cursor
                    /\ currentElement' = currentElement
                    /\ shift' = FALSE \/ caller' = "SHIFT+1"
             /\ InsertsKey(btn)]_vars

\* SHIFT+0 has been pressed after keys had been typed: the command is the
\* blank, the cursor is at 0 and shift is released
C28_Witness ==
    /\ handled = Handled(Key0, <<"SHIFT+", "0">>)
    /\ currentElement = Hydrogen
    /\ command = <<Blank>>
    /\ cursor = 0
    /\ ~shift

(***************************************************************************)
(* C29                                                                     *)
(***************************************************************************)
\* the command without its entry at the place counted from 0
WithoutEntry(cmd, place) ==
    SubSeq(cmd, 1, place) \o SubSeq(cmd, place + 2, Len(cmd))

\* C29: the callback of DEL changes nothing on the command that is just the
\* blank; otherwise it removes exactly one entry, the one before the cursor
\* when the cursor is past 0 (and the cursor moves one place left) or the one
\* at 0 when the cursor is at 0; the other entries keep their order and the
\* trailing blank stays
C29_DeleteSemantics ==
    [][(Ready /\ Called(KeyDEL)) =>
          IF command = <<Blank>>
          THEN command' = command /\ cursor' = cursor /\ result' = result
          ELSE /\ IF cursor > 0
                  THEN /\ command' = WithoutEntry(command, cursor - 1)
                       /\ cursor' = cursor - 1
                  ELSE /\ command' = WithoutEntry(command, 0)
                       /\ cursor' = 0
               /\ Len(command') = Len(command) - 1
               /\ command'[Len(command')] = Blank]_vars

\* DEL has removed the element between the yield sign and the cursor: the
\* yield sign and the trailing blank are left, the cursor has moved to 1
C29_Witness ==
    /\ handled.cell = KeyDEL
    /\ currentElement = Hydrogen
    /\ command = <<<<"=>">>, Blank>>
    /\ cursor = 1

(***************************************************************************)
(* The long press: the pointer goes down on a cell and comes up on it, the *)
(* browser runs the animation-frame callbacks one at a time, and time      *)
(* passes.  Every handler runs to its end before the next one starts.  Up *)
(* to MaxFrames callbacks are queued at a time.                            *)
(***************************************************************************)
MaxFrames == 2

\* the cells the pointer is put on
PressCells == {TableShift, Key0, Hydrogen, KeyDEL}

\* handlePointerDown: the shift key has its callback called at once; a key or
\* an element dispatches "buttondown", on which handleBottonDown sets done
\* to false and queues callbackIterator(e)
PointerDown ==
    /\ Ready
    /\ pointer = NoCell
    /\ \E val \in PressCells :
           /\ pointer' = val
           /\ IF isShift(val)
              THEN /\ Invoke(val)
                   /\ UNCHANGED <<done, frames, invoked>>
              ELSE /\ Len(frames) < MaxFrames
                   /\ done' = FALSE
                   /\ frames' = Append(frames, val)
                   /\ invoked' = FALSE
                   /\ UNCHANGED <<pipeline, result, output, command, cursor,
                                  shift, currentElement, clipboard, caller,
                                  handled>>
    /\ UNCHANGED <<focusArea, due, late>>

\* handlePointerUp on the cell the pointer went down on: an element takes the
\* focus; a key or an element dispatches "buttonup", on which handleBottonUp
\* sets done to true
PointerUp ==
    /\ Ready
    /\ pointer # NoCell
    /\ pointer' = NoCell
    /\ IF isShift(pointer)
       THEN UNCHANGED <<done, focusArea>>
       ELSE /\ done' = TRUE
            /\ focusArea' = IF isElement(pointer) THEN "ELEMENT" ELSE focusArea
    /\ UNCHANGED <<pipeline, result, output, command, cursor, shift,
                   currentElement, clipboard, caller, handled, frames, due,
                   invoked, late>>

\* call(timeStamp), the callback requestAnimationFrame runs: nothing when done
\* is true; otherwise the callback of the key when 200 ms have passed since
\* zero, and call is queued again
call ==
    /\ Ready
    /\ frames # <<>>
    /\ IF done
       THEN /\ frames' = Tail(frames)
            /\ UNCHANGED <<pipeline, result, output, console, done, due,
                           pointer, invoked, late>>
       ELSE /\ frames' = Append(Tail(frames), Head(frames))
            /\ IF due
               THEN /\ due' = FALSE
                    /\ WithinBounds(Head(frames))
                    /\ Invoke(Head(frames))
                    /\ invoked' = (invoked \/ Head(frames) = pointer)
                    /\ late' = (late \/ pointer = NoCell)
                    /\ UNCHANGED <<focusArea, done, pointer>>
               ELSE UNCHANGED <<pipeline, result, output, console, done, due,
                                pointer, invoked, late>>

\* 200 ms have passed since zero was taken
Tick ==
    /\ ~due
    /\ due' = TRUE
    /\ UNCHANGED <<pipeline, result, output, console, done, frames, pointer,
                   invoked, late>>

NextPress ==
    \/ PointerDown
    \/ PointerUp
    \/ call
    \/ Tick

SpecPress == InitEditor /\ [][NextPress]_vars


\* C30: no lost key press.  Once "buttonup" has been handled (done is true)
\* the callback of the pressed cell has been called at least once since its
\* "buttondown", whatever the order of the pointer events and the animation
\* frames; and no callback is called while the pointer is up.  The code
\* breaks the first half: a "buttonup" handled before the first animation
\* frame, or before 200 ms have passed since zero, leaves the press without
\* a call.
C30_NoLostKeyPress ==
    /\ done => invoked
    /\ ~late

====
